---- MODULE Spec2Model ----
(***************************************************************************)
(* Reliable file transfer over UDP: the server session engine (package     *)
(* serverudp), the client transfer engine (package clientudp), the frame   *)
(* codec (package protocol) and the single-shot drop policy.               *)
(*                                                                         *)
(* Byte strings are kept run-length encoded: a sequence of runs            *)
(* [b |-> byte value, n |-> repeat count], so a 1024-byte chunk is one     *)
(* record and lengths keep their real values.                              *)
(***************************************************************************)
EXTENDS Integers, Sequences, FiniteSets, TLC

\* ------------------------------------------------------------------------
\* Bounds of the model (not program constants)
\* ------------------------------------------------------------------------
MaxPathLen == 4
MaxHandlers == 2
MaxFaults == 1
ReorderWindow == 2
MaxDropCalls == 5
MaxNacks == 2
MaxStarts == 2
MaxDatagrams == 2
MaxSnapshots == 2

\* ------------------------------------------------------------------------
\* Program constants
\* ------------------------------------------------------------------------
ChunkSize == 1024
dataHeaderSize == 18
ctrlHeaderSize == 6
ServerBufSize == 4096
ClientMetaBufSize == 4096
ProtocolVersion == 1
DefaultAttempts == 3
IdleFactor == 3

U16 == 65536

ctrlTypeREQ == 1
ctrlTypeMETA == 2
ctrlTypeERR == 3
ctrlTypeEOF == 4
ctrlTypeNACK == 5
ctrlTypeLIST == 6
ctrlTypeLST == 7

ErrInvalidPath == "caminho invalido"
ErrNotFound == "arquivo nao encontrado"

Min(a, b) == IF a < b THEN a ELSE b

\* ------------------------------------------------------------------------
\* Byte strings (run-length encoded)
\* ------------------------------------------------------------------------
RECURSIVE BLen(_)
BLen(s) == IF s = <<>> THEN 0 ELSE Head(s).n + BLen(Tail(s))

\* canonical form: no empty run, no two adjacent runs of the same byte
RECURSIVE Norm(_)
Norm(s) ==
  IF s = <<>> THEN <<>>
  ELSE IF Head(s).n = 0 THEN Norm(Tail(s))
  ELSE LET r == Norm(Tail(s)) IN
       IF r # <<>> /\ Head(r).b = Head(s).b
       THEN <<[b |-> Head(s).b, n |-> Head(s).n + Head(r).n]>> \o Tail(r)
       ELSE <<Head(s)>> \o r

\* the first k bytes of s (all of s when it is shorter)
RECURSIVE BTake(_, _)
BTake(s, k) ==
  IF s = <<>> \/ k <= 0 THEN <<>>
  ELSE IF Head(s).n <= k THEN <<Head(s)>> \o BTake(Tail(s), k - Head(s).n)
  ELSE <<[b |-> Head(s).b, n |-> k]>>

\* s without its first k bytes
RECURSIVE BDrop(_, _)
BDrop(s, k) ==
  IF s = <<>> \/ k <= 0 THEN s
  ELSE IF Head(s).n <= k THEN BDrop(Tail(s), k - Head(s).n)
  ELSE <<[b |-> Head(s).b, n |-> Head(s).n - k]>> \o Tail(s)

BSlice(s, off, k) == Norm(BTake(BDrop(s, off), k))

RECURSIVE ByteSum(_)
ByteSum(s) == IF s = <<>> THEN 0 ELSE Head(s).b * Head(s).n + ByteSum(Tail(s))

\* s with its first byte replaced by another value (s non-empty)
FlipFirstByte(s) ==
  Norm(<<[b |-> (Head(s).b + 1) % 256, n |-> 1]>> \o BDrop(s, 1))

RECURSIVE ConcatAll(_)
ConcatAll(chunks) ==
  IF chunks = <<>> THEN <<>> ELSE Head(chunks) \o ConcatAll(Tail(chunks))

\* ------------------------------------------------------------------------
\* Frame codec (package protocol)
\* ------------------------------------------------------------------------

\* Checksum of a payload.  crc32.ChecksumIEEE is abstracted by a checksum
\* that, like it, is a function of the content only, detects every
\* single-byte change and has collisions.
CRC32(data) == ByteSum(data) % 65521

\* Digests are abstract: the digest of a byte string is the canonical byte
\* string itself (collision-free); ZeroDigest stands for 32 zero bytes.
ZeroDigest == [zero |-> TRUE, of |-> <<>>]

Sha256Sum(data) == [zero |-> FALSE, of |-> Norm(data)]

\* 64 hex characters from a 32-byte digest, always lowercase
fmtHash(b) == [wellFormed |-> TRUE, lower |-> TRUE, digest |-> b]

\* the 32 bytes named by a hex string.  Every string the program passes to
\* parseHexSha is a result of fmtHash (the META of loadFile); the function
\* on arbitrary characters is parseHexSha64 below.
parseHexSha(s) == s.digest

SHA256FileChunks(chunks) == fmtHash(Sha256Sum(ConcatAll(chunks)))

\* a header that always carries sequence 0
DataHeader_zeroSeq(seq, total, size, crc) ==
  [Seq |-> 0, Total |-> total, Size |-> size, CRC32 |-> crc]

DataHeader(seq, total, size, crc) ==
  [Seq |-> seq, Total |-> total, Size |-> size, CRC32 |-> crc]

\* A DATA datagram: the 18 packed header bytes followed by the payload.
\* dlen is the length of the datagram.  The 32-bit fields hold values far
\* below 2^32 here, so only the 16-bit size field is reduced.
DataPacket(h, payload) ==
  [magic |-> "UD", ver |-> ProtocolVersion,
   seq |-> h.Seq, total |-> h.Total, size |-> h.Size % U16,
   crc |-> h.CRC32, payload |-> payload,
   dlen |-> dataHeaderSize + BLen(payload)]

\* A control datagram: plen is the declared payload length (16 bits), blen
\* the number of payload bytes actually present, val the packed fields.
ctrlFrame(t, payloadLen, val) ==
  [magic |-> "UC", ver |-> ProtocolVersion, typ |-> t,
   plen |-> payloadLen % U16, blen |-> payloadLen, val |-> val,
   dlen |-> ctrlHeaderSize + payloadLen]

packREQ(path) == ctrlFrame(ctrlTypeREQ, Len(path), [path |-> path])

packMETA(m) ==
  ctrlFrame(ctrlTypeMETA, 4 + 8 + 2 + 2 + Len(m.Filename) + 32,
            [total |-> m.Total, size |-> m.Size, chunk |-> m.Chunk % U16,
             fnLen |-> Len(m.Filename) % U16, filename |-> m.Filename,
             sha |-> parseHexSha(m.SHA256)])

packERR(msg) ==
  ctrlFrame(ctrlTypeERR, 2 + 2 + msg.len,
            [code |-> 1, msgLen |-> msg.len % U16, msg |-> msg])

packEOF == ctrlFrame(ctrlTypeEOF, 0, [none |-> TRUE])

packNACK(missing) ==
  ctrlFrame(ctrlTypeNACK, 2 + 4 * Len(missing),
            [count |-> Len(missing) % U16, seqs |-> missing])

packLIST == ctrlFrame(ctrlTypeLIST, 0, [none |-> TRUE])

RECURSIVE NamesLen(_)
NamesLen(names) ==
  IF names = <<>> THEN 0 ELSE 2 + Len(Head(names)) + NamesLen(Tail(names))

packLST(names) ==
  ctrlFrame(ctrlTypeLST, 2 + NamesLen(names),
            [count |-> Len(names) % U16, names |-> names])

\* an error message: its text and its length in bytes
ErrText(text) == [text |-> text, len |-> IF text = ErrNotFound THEN 23 ELSE 17]

IsCtrl(b) == b.dlen >= 2 /\ b.magic = "UC"

\* what a read into a buffer of `cap` bytes leaves of a datagram
ReadInto(b, cap) ==
  IF b.dlen <= cap THEN b
  ELSE IF b.magic = "UC"
       THEN [b EXCEPT !.dlen = cap, !.blen = cap - ctrlHeaderSize]
       ELSE [b EXCEPT !.dlen = cap,
                      !.payload = BSlice(b.payload, 0, cap - dataHeaderSize)]

DecodeErr == [err |-> TRUE, typ |-> "", val |-> [none |-> TRUE]]

DecodeOk(typ, val) == [err |-> FALSE, typ |-> typ, val |-> val]

\* a parse that trusts the declared payload length
parseCtrlOk_noLength(b) ==
  /\ b.dlen >= ctrlHeaderSize
  /\ b.magic = "UC"
  /\ b.ver = ProtocolVersion

\* parseCtrl: header checks, then the declared payload must be present
parseCtrlOk(b) ==
  /\ b.dlen >= ctrlHeaderSize
  /\ b.magic = "UC"
  /\ b.ver = ProtocolVersion
  /\ b.dlen >= ctrlHeaderSize + b.plen

\* the payload handed to unpack* has exactly plen bytes
unpackREQ(b) == DecodeOk("REQ", [Path |-> SubSeq(b.val.path, 1, Min(b.plen, Len(b.val.path)))])

unpackMETA(b) ==
  IF b.plen < 4 + 8 + 2 + 2 + 32 THEN DecodeErr
  ELSE IF b.plen < 16 + b.val.fnLen + 32 THEN DecodeErr
  ELSE DecodeOk("META",
         [Filename |-> SubSeq(b.val.filename, 1, b.val.fnLen),
          Total |-> b.val.total, Size |-> b.val.size,
          SHA256 |-> fmtHash(b.val.sha), Chunk |-> b.val.chunk])

unpackERR(b) ==
  IF b.plen < 4 THEN DecodeErr
  ELSE IF b.plen < 4 + b.val.msgLen THEN DecodeErr
  ELSE DecodeOk("ERR", [Message |-> b.val.msg.text])

unpackNACK(b) ==
  IF b.plen < 2 THEN DecodeErr
  ELSE IF b.plen < 2 + 4 * b.val.count THEN DecodeErr
  ELSE DecodeOk("NACK", [Missing |-> SubSeq(b.val.seqs, 1, b.val.count)])

\* the list is cut where the payload ends: a count beyond the names that
\* are present, or a name beyond the declared length, is an error
unpackLST(b) ==
  IF b.plen < 2 THEN DecodeErr
  ELSE IF b.val.count > Len(b.val.names) THEN DecodeErr
  ELSE IF b.plen < 2 + NamesLen(SubSeq(b.val.names, 1, b.val.count)) THEN DecodeErr
  ELSE DecodeOk("LST", [Names |-> SubSeq(b.val.names, 1, b.val.count)])

DecodeCtrl(b) ==
  IF ~parseCtrlOk(b) THEN DecodeErr
  ELSE CASE b.typ = ctrlTypeREQ  -> unpackREQ(b)
         [] b.typ = ctrlTypeMETA -> unpackMETA(b)
         [] b.typ = ctrlTypeERR  -> unpackERR(b)
         [] b.typ = ctrlTypeEOF  -> DecodeOk("EOF", [none |-> TRUE])
         [] b.typ = ctrlTypeNACK -> unpackNACK(b)
         [] b.typ = ctrlTypeLIST -> DecodeOk("LIST", [none |-> TRUE])
         [] b.typ = ctrlTypeLST  -> unpackLST(b)
         [] OTHER -> DecodeErr

\* only the low byte of x, in the last of n bytes
BE_lowByte(x, n) == [i \in 1..n |-> IF i = n THEN x % 256 ELSE 0]

\* binary.BigEndian.PutUint16 / PutUint32: x in n bytes, high byte first
BE(x, n) == [i \in 1..n |-> (x \div (256 ^ (n - i))) % 256]

\* binary.BigEndian.Uint16 / Uint32
RECURSIVE FromBE(_)
FromBE(bs) ==
  IF bs = <<>> THEN 0 ELSE FromBE(SubSeq(bs, 1, Len(bs) - 1)) * 256 + bs[Len(bs)]

\* PackHeader: the 18 bytes 'U' 'D' version flags seq total size crc
PackHeader(h) ==
  <<85, 68, ProtocolVersion, 0>> \o BE(h.Seq, 4) \o BE(h.Total, 4)
    \o BE(h.Size, 2) \o BE(h.CRC32, 4)

HeaderErr == [err |-> TRUE, h |-> [Seq |-> 0, Total |-> 0, Size |-> 0, CRC32 |-> 0]]

\* magic and version of a buffer of at least 3 bytes
UnpackHeaderOk(bs) == bs[1] = 85 /\ bs[2] = 68 /\ bs[3] = ProtocolVersion

\* an unpacking that does not look at the version byte
UnpackHeader_anyVersion(bs) ==
  IF Len(bs) < dataHeaderSize THEN HeaderErr
  ELSE IF ~(bs[1] = 85 /\ bs[2] = 68) THEN HeaderErr
  ELSE [err |-> FALSE,
        h |-> [Seq |-> FromBE(SubSeq(bs, 5, 8)), Total |-> FromBE(SubSeq(bs, 9, 12)),
               Size |-> FromBE(SubSeq(bs, 13, 14)), CRC32 |-> FromBE(SubSeq(bs, 15, 18))]]

\* UnpackHeader on a buffer of bytes
UnpackHeader(bs) ==
  IF Len(bs) < dataHeaderSize THEN HeaderErr
  ELSE IF ~UnpackHeaderOk(bs) THEN HeaderErr
  ELSE [err |-> FALSE,
        h |-> [Seq |-> FromBE(SubSeq(bs, 5, 8)), Total |-> FromBE(SubSeq(bs, 9, 12)),
               Size |-> FromBE(SubSeq(bs, 13, 14)), CRC32 |-> FromBE(SubSeq(bs, 15, 18))]]

\* the two magic bytes of a datagram
MagicBytes(magic) ==
  CASE magic = "UD" -> <<85, 68>>
    [] magic = "UC" -> <<85, 67>>
    [] OTHER -> <<88, 88>>

\* b[:HeaderSize()] for the datagram b read into a fresh 1042-byte buffer:
\* the bytes of the datagram, then the zero bytes of the buffer
HeaderBytes(b) ==
  LET bytes == IF "seq" \in DOMAIN b
               THEN MagicBytes(b.magic) \o <<b.ver, 0>> \o BE(b.seq, 4)
                      \o BE(b.total, 4) \o BE(b.size, 2) \o BE(b.crc, 4)
               ELSE MagicBytes(b.magic) \o <<b.ver, b.typ>> \o BE(b.plen, 2)
                      \o [i \in 1..12 |-> 0]
  IN [i \in 1..dataHeaderSize |-> IF i <= b.dlen THEN bytes[i] ELSE 0]

\* ------------------------------------------------------------------------
\* Paths: strings are sequences of one-character strings
\* ------------------------------------------------------------------------

\* out shortened to the last separator at or after position dotdot
RECURSIVE Backtrack(_, _)
Backtrack(out, dotdot) ==
  IF Len(out) > dotdot /\ out[Len(out)] # "/"
  THEN Backtrack(SubSeq(out, 1, Len(out) - 1), dotdot)
  ELSE out

\* the element of path that starts at position r (up to the next separator)
RECURSIVE Element(_, _)
Element(path, r) ==
  IF r > Len(path) \/ path[r] = "/" THEN <<>>
  ELSE <<path[r]>> \o Element(path, r + 1)

\* the scanning loop of filepath.Clean: r is the next position to read
\* (1-based), out the output written so far, dotdot the length of the
\* prefix of out that a ".." element may not remove
RECURSIVE CleanLoop(_, _, _, _, _)
CleanLoop(path, r, out, dotdot, rooted) ==
  LET n == Len(path) IN
  IF r > n THEN out
  ELSE IF path[r] = "/" THEN CleanLoop(path, r + 1, out, dotdot, rooted)
  ELSE IF path[r] = "." /\ (r = n \/ path[r + 1] = "/")
       THEN CleanLoop(path, r + 1, out, dotdot, rooted)
  ELSE IF path[r] = "." /\ path[r + 1] = "." /\ (r + 1 = n \/ path[r + 2] = "/")
       THEN IF Len(out) > dotdot
            THEN CleanLoop(path, r + 2,
                           Backtrack(SubSeq(out, 1, Len(out) - 1), dotdot),
                           dotdot, rooted)
            ELSE IF ~rooted
                 THEN LET o2 == (IF Len(out) > 0 THEN out \o <<"/">> ELSE out)
                                \o <<".", ".">>
                      IN CleanLoop(path, r + 2, o2, Len(o2), rooted)
                 ELSE CleanLoop(path, r + 2, out, dotdot, rooted)
  ELSE LET e == Element(path, r)
           o2 == IF (rooted /\ Len(out) # 1) \/ (~rooted /\ Len(out) # 0)
                 THEN out \o <<"/">> ELSE out
       IN CleanLoop(path, r + Len(e), o2 \o e, dotdot, rooted)

\* filepath.Clean
Clean(path) ==
  IF path = <<>> THEN <<".">>
  ELSE LET rooted == path[1] = "/"
           out == IF rooted THEN CleanLoop(path, 2, <<"/">>, 1, TRUE)
                  ELSE CleanLoop(path, 1, <<>>, 0, FALSE)
       IN IF out = <<>> THEN <<".">> ELSE out

HasPrefix(s, prefix) ==
  Len(s) >= Len(prefix) /\ SubSeq(s, 1, Len(prefix)) = prefix

\* filepath.Join of two non-empty elements
Join(a, b) == Clean(a \o <<"/">> \o b)

RECURSIVE StripTrailingSlashes(_)
StripTrailingSlashes(p) ==
  IF p # <<>> /\ p[Len(p)] = "/" THEN StripTrailingSlashes(SubSeq(p, 1, Len(p) - 1))
  ELSE p

RECURSIVE LastElement(_)
LastElement(p) ==
  IF p = <<>> \/ p[Len(p)] = "/" THEN <<>>
  ELSE LastElement(SubSeq(p, 1, Len(p) - 1)) \o <<p[Len(p)]>>

\* filepath.Base
Base(path) ==
  IF path = <<>> THEN <<".">>
  ELSE LET p == StripTrailingSlashes(path) IN
       IF p = <<>> THEN <<"/">> ELSE LastElement(p)

\* every string of at most n characters over the alphabet cs
RECURSIVE Strings(_, _)
Strings(cs, n) ==
  IF n = 0 THEN {<<>>}
  ELSE LET shorter == Strings(cs, n - 1) IN
       shorter \cup {s \o <<c>> : s \in shorter, c \in cs}

\* ------------------------------------------------------------------------
\* The server's base directory
\* ------------------------------------------------------------------------
Empty == <<>>

OneChunk == <<[b |-> 65, n |-> 1024]>>

Straddle == <<[b |-> 65, n |-> 1024], [b |-> 66, n |-> 1]>>

ThreeChunks == <<[b |-> 65, n |-> 1500], [b |-> 66, n |-> 1000]>>

Nested == <<[b |-> 67, n |-> 1]>>

\* 21 chunks: one more than the client's log line lists in full
Large == <<[b |-> 68, n |-> 21504]>>

\* regular files by path relative to the base directory
RegularFiles ==
  (<<"e">> :> Empty) @@ (<<"b">> :> OneChunk) @@ (<<"c">> :> Straddle) @@
  (<<"a">> :> ThreeChunks) @@ (<<"d">> :> Large) @@
  (<<"a", "a", "/", "a">> :> Nested)

Directories == {<<".">>, <<"a", "a">>}

\* os.ReadDir(baseDir), names of the entries that are not directories
BaseDirNames == <<<<"a">>, <<"b">>, <<"c">>, <<"d">>, <<"e">>>>

NoMeta == [Filename |-> <<>>, Total |-> 0, Size |-> 0,
           SHA256 |-> fmtHash(ZeroDigest), Chunk |-> 0]

NoEntry == [present |-> FALSE, meta |-> NoMeta, chunks |-> <<>>]

\* a read loop that keeps full chunks only and loses a short last read
RECURSIVE ReadChunks_dropTail(_)
ReadChunks_dropTail(content) ==
  IF BLen(content) < ChunkSize THEN <<>>
  ELSE <<BSlice(content, 0, ChunkSize)>> \o ReadChunks_dropTail(BDrop(content, ChunkSize))

\* a read loop that keeps the whole buffer of every read, not buf[:n]
RECURSIVE ReadChunks_wholeBuf(_)
ReadChunks_wholeBuf(content) ==
  IF BLen(content) = 0 THEN <<>>
  ELSE IF BLen(content) < ChunkSize
       THEN <<Norm(content \o <<[b |-> 0, n |-> ChunkSize - BLen(content)]>>)>>
       ELSE <<BSlice(content, 0, ChunkSize)>> \o ReadChunks_wholeBuf(BDrop(content, ChunkSize))

\* the ChunkSize-sized slices f.Read returns until io.EOF
RECURSIVE ReadChunks(_)
ReadChunks(content) ==
  IF BLen(content) = 0 THEN <<>>
  ELSE <<BSlice(content, 0, ChunkSize)>> \o ReadChunks(BDrop(content, ChunkSize))

\* loadFile: NoEntry stands for an error (absent, or a directory)
loadFile(path) ==
  IF path \in Directories \/ path \notin DOMAIN RegularFiles THEN NoEntry
  ELSE LET chunks == ReadChunks(RegularFiles[path]) IN
       [present |-> TRUE,
        meta |-> [Filename |-> Base(path), Total |-> Len(chunks),
                  Size |-> BLen(RegularFiles[path]),
                  SHA256 |-> SHA256FileChunks(chunks), Chunk |-> ChunkSize],
        chunks |-> chunks]

\* a check that compares with "." and ".." only
PathRejected_exact(safe) == safe = <<".">> \/ safe = <<".", ".">>

\* the path check of handleREQ
PathRejected(safe) ==
  safe = <<".">> \/ safe = <<".", ".">> \/ HasPrefix(safe, <<".", ".">>)

\* ------------------------------------------------------------------------
\* State
\* ------------------------------------------------------------------------
VARIABLES
  cfg,        \* clientudp.Config of the transfer
  cl,         \* position and locals of RunTransfer
  recv,       \* receive map: sequence -> payload
  ctr,        \* bytesRecv and segsRecv
  drop,       \* DropPolicy: rate and dropped set
  timer,      \* read deadline of the client socket, deadline of the NACK round
  cancel,     \* the cancel channel is closed
  files,      \* files written by the client: path -> bytes
  calls,      \* callbacks invoked so far, in order
  active,     \* activeTransfers: peer -> fileEntry
  mtr,        \* server Metrics
  handlers,   \* running handleREQ / handleNACK goroutines
  srv,        \* srvRunning, srvConn, the sockets and the packetLoop goroutines
  c2s,        \* datagrams on their way to the server
  s2c,        \* datagrams on their way to the client
  faults,     \* number of faults the network has injected
  hist        \* observation of the run (not program state)

vars == <<cfg, cl, recv, ctr, drop, timer, cancel, files, calls,
          active, mtr, handlers, srv, c2s, s2c, faults, hist>>

clientVars == <<cfg, cl, recv, ctr, drop, timer, cancel, files, calls>>

serverVars == <<active, mtr, handlers, srv>>

ClientAddr == "c1"

OtherAddr == "c2"

Peers == {ClientAddr, OtherAddr}

RemoveAt(q, k) == SubSeq(q, 1, k - 1) \o SubSeq(q, k + 1, Len(q))

\* a datagram written to a socket
Datagram(from, b) == [from |-> from, b |-> b]

\* the client's socket is open until transferOnce returns
Closed == cl.pc \in {"ret", "done", "panic"}

\* what a write of b on the server socket conn sends: nothing once the
\* socket is closed (the error is ignored by every caller)
Written(conn, b) == IF srv.open[conn] THEN <<b>> ELSE <<>>

\* the zero value of Metrics
NoMetrics == [BytesSent |-> 0, SegmentsSent |-> 0, NacksReceived |-> 0,
              Retransmissions |-> 0, ActiveClients |-> 0]

\* a store of delta in place of the add
AddUint64_store(x, delta) == delta

\* atomic.AddUint64; the counters stay far below 2^64
AddUint64(x, delta) == x + delta

\* the byte count the write returns
BytesWritten(conn, b) == IF srv.open[conn] THEN b.dlen ELSE 0

\* the server writes b to the peer addr on conn; datagrams for a closed
\* client socket or for another peer are not followed further
WriteToUDP(b, addr, conn) ==
  s2c' = IF addr = ClientAddr /\ ~Closed THEN s2c \o Written(conn, b) ELSE s2c

\* the goroutine h has written b (the record of its writes is kept with it)
Wrote(h, b) == [handlers EXCEPT ![h].sent = @ \o Written(handlers[h].conn, b)]

\* the DATA frames among the datagrams of sent, and their bytes
DataFramesOf(sent) == {j \in 1..Len(sent) : sent[j].magic = "UD"}

RECURSIVE DataBytesOf(_)
DataBytesOf(sent) ==
  IF sent = <<>> THEN 0
  ELSE (IF Head(sent).magic = "UD" THEN Head(sent).dlen ELSE 0) + DataBytesOf(Tail(sent))

\* the tally w of what reached the socket, with the goroutine g added: the
\* DATA frames of a blast, those of a retransmission, their bytes, and the
\* NACK that was decoded for a handleNACK goroutine
Tally(w, g) ==
  [blast  |-> w.blast + (IF g.kind = "REQ" THEN Cardinality(DataFramesOf(g.sent)) ELSE 0),
   resent |-> w.resent + (IF g.kind = "NACK" THEN Cardinality(DataFramesOf(g.sent)) ELSE 0),
   nacks  |-> w.nacks + (IF g.kind = "NACK" THEN 1 ELSE 0),
   bytes  |-> w.bytes + DataBytesOf(g.sent)]

\* the goroutine h returns; what it did is added to the observation
Return(h) ==
  /\ handlers' = RemoveAt(handlers, h)
  /\ hist' = [hist EXCEPT !.served = @ \cup {[kind |-> handlers[h].kind,
                                              addr |-> handlers[h].addr,
                                              path |-> handlers[h].path,
                                              missing |-> handlers[h].missing,
                                              loaded |-> handlers[h].loaded,
                                              entry |-> handlers[h].entry,
                                              sent |-> handlers[h].sent]},
                           !.wrote = Tally(@, handlers[h])]

\* the same after the write of an ERR reply b; loaded tells whether loadFile
\* was called; the session the peer had at that moment is noted
ReturnAfter(h, b, loaded) ==
  /\ handlers' = RemoveAt(handlers, h)
  /\ hist' = [hist EXCEPT !.served = @ \cup {[kind |-> handlers[h].kind,
                                              addr |-> handlers[h].addr,
                                              path |-> handlers[h].path,
                                              missing |-> handlers[h].missing,
                                              loaded |-> loaded,
                                              entry |-> handlers[h].entry,
                                              sent |-> handlers[h].sent \o
                                                       Written(handlers[h].conn, b)]},
                           !.errWith = @ \cup {[addr |-> handlers[h].addr,
                                                 path |-> handlers[h].path,
                                                 session |-> active[handlers[h].addr]]}]

\* ------------------------------------------------------------------------
\* Server session engine (package serverudp)
\* ------------------------------------------------------------------------
NewHandler(kind, addr, val, conn) ==
  [kind |-> kind, addr |-> addr, conn |-> conn, pc |-> "start",
   path |-> IF kind = "REQ" THEN val.Path ELSE <<>>,
   missing |-> IF kind = "NACK" THEN val.Missing ELSE <<>>,
   entry |-> NoEntry, i |-> 0, loaded |-> FALSE, sent |-> <<>>]

\* a loop that calls the handlers itself goes on when they have returned
AcceptReady_inline(hs) == hs = <<>>

\* handleREQ and handleNACK are started with go: the loop goes on whatever
\* the goroutines hs do
AcceptReady(hs) == TRUE

\* packetLoop l is blocked in ReadFromUDP on an open socket and the k-th
\* datagram in flight arrives: it is copied out of the buffer
packetLoop_read(l, k) ==
  /\ l \in 1..Len(srv.loops)
  /\ srv.loops[l].pc = "read" /\ srv.open[srv.loops[l].conn]
  /\ AcceptReady(handlers)
  /\ k \in 1..Len(c2s)
  /\ c2s' = RemoveAt(c2s, k)
  /\ srv' = [srv EXCEPT !.loops[l].pc = "dispatch",
                        !.loops[l].got = <<[from |-> c2s[k].from,
                                            b |-> ReadInto(c2s[k].b, ServerBufSize)]>>]
  /\ UNCHANGED <<active, mtr, handlers, s2c, faults, hist>>
  /\ UNCHANGED clientVars

\* packetLoop l handles the datagram it read: dispatchCtrl for a control
\* frame (REQ and NACK start a goroutine, LIST is answered inline), nothing
\* for anything else; then the loop condition srvRunning.Load()
dispatchCtrl(l) ==
  /\ l \in 1..Len(srv.loops)
  /\ srv.loops[l].pc = "dispatch"
  /\ LET d == srv.loops[l].got[1]
         conn == srv.loops[l].conn
         dec == IF IsCtrl(d.b) THEN DecodeCtrl(d.b) ELSE DecodeErr
     IN IF ~dec.err /\ dec.typ \in {"REQ", "NACK"}
        THEN /\ Len(handlers) < MaxHandlers
             /\ handlers' = Append(handlers, NewHandler(dec.typ, d.from, dec.val, conn))
             /\ UNCHANGED s2c
        ELSE IF ~dec.err /\ dec.typ = "LIST"
        THEN /\ WriteToUDP(packLST(BaseDirNames), d.from, conn)
             /\ UNCHANGED handlers
        ELSE UNCHANGED <<handlers, s2c>>
  /\ srv' = [srv EXCEPT !.loops[l].got = <<>>,
                        !.loops[l].pc = IF srv.running THEN "read" ELSE "exit"]
  /\ UNCHANGED <<active, mtr, c2s, faults, hist>>
  /\ UNCHANGED clientVars

\* ReadFromUDP fails because the socket of packetLoop l is closed: continue,
\* then the loop condition
packetLoop_readErr(l) ==
  /\ l \in 1..Len(srv.loops)
  /\ srv.loops[l].pc = "read" /\ ~srv.open[srv.loops[l].conn]
  /\ srv' = [srv EXCEPT !.loops[l].pc = IF srv.running THEN "read" ELSE "exit"]
  /\ UNCHANGED <<active, mtr, handlers, c2s, s2c, faults, hist>>
  /\ UNCHANGED clientVars

\* packetLoop l returns: the deferred srvRunning.Store(false); conn.Close()
packetLoop_exit(l) ==
  /\ l \in 1..Len(srv.loops)
  /\ srv.loops[l].pc = "exit"
  /\ srv' = [srv EXCEPT !.running = FALSE,
                        !.open[srv.loops[l].conn] = FALSE,
                        !.loops[l].pc = "done"]
  /\ UNCHANGED <<active, mtr, handlers, c2s, s2c, faults, hist>>
  /\ UNCHANGED clientVars

\* Start: nothing when the flag is set; ListenUDP fails while a socket is
\* still bound to the port; otherwise a new socket and a new packetLoop
Start ==
  /\ hist.startCalls < MaxStarts
  /\ IF srv.running \/ (\E c \in 1..Len(srv.open) : srv.open[c])
     THEN /\ hist' = [hist EXCEPT !.startCalls = @ + 1]
          /\ UNCHANGED srv
     ELSE /\ hist' = [hist EXCEPT !.startCalls = @ + 1,
                                  !.stopsAtStart = hist.stopCalls]
          /\ srv' = [running |-> TRUE,
                     conn |-> Len(srv.open) + 1,
                     open |-> Append(srv.open, TRUE),
                     loops |-> Append(srv.loops, [conn |-> Len(srv.open) + 1,
                                                  pc |-> "read", got |-> <<>>])]
  /\ UNCHANGED <<active, mtr, handlers, c2s, s2c, faults>>
  /\ UNCHANGED clientVars

\* Stop: srvRunning.Store(false), then srvConn.Close() if there is a socket
Stop ==
  /\ hist.stopCalls < MaxStarts
  /\ hist' = [hist EXCEPT !.stopCalls = @ + 1]
  /\ srv' = [srv EXCEPT !.running = FALSE,
                        !.open = IF srv.conn = 0 THEN @
                                 ELSE [@ EXCEPT ![srv.conn] = FALSE]]
  /\ UNCHANGED <<active, mtr, handlers, c2s, s2c, faults>>
  /\ UNCHANGED clientVars

\* an error path that forgets the peer's session
onError_forget(sessions, addr) == [sessions EXCEPT ![addr] = NoEntry]

\* the active-transfers map after handleREQ has answered ERR and returned:
\* no statement of the two error paths touches it
onError(sessions, addr) == sessions

\* handleREQ up to the registration of the session
handleREQ_load(h) ==
  /\ h \in 1..Len(handlers)
  /\ handlers[h].kind = "REQ" /\ handlers[h].pc = "start"
  /\ LET g == handlers[h]
         safe == Clean(g.path)
     IN IF PathRejected(safe)
        THEN /\ WriteToUDP(packERR(ErrText(ErrInvalidPath)), g.addr, g.conn)
             /\ ReturnAfter(h, packERR(ErrText(ErrInvalidPath)), FALSE)
             /\ active' = onError(active, g.addr)
        ELSE LET targetPath == Join(<<".">>, safe)
                 entry == loadFile(targetPath)
             IN IF ~entry.present
                THEN /\ WriteToUDP(packERR(ErrText(ErrNotFound)), g.addr, g.conn)
                     /\ ReturnAfter(h, packERR(ErrText(ErrNotFound)), TRUE)
                     /\ active' = onError(active, g.addr)
                ELSE /\ active' = [active EXCEPT ![g.addr] = entry]
                     /\ handlers' = [handlers EXCEPT ![h].pc = "registered",
                                                     ![h].entry = entry,
                                                     ![h].loaded = TRUE]
                     /\ UNCHANGED <<s2c, hist>>
  /\ UNCHANGED <<mtr, c2s, faults>>
  /\ UNCHANGED srv
  /\ UNCHANGED clientVars

\* an addition that takes the magnitude of delta
AddInt64_magnitude(x, delta) == x + (IF delta < 0 THEN 0 - delta ELSE delta)

\* atomic.AddInt64 on the gauge
AddInt64(x, delta) == x + delta

\* atomic.AddInt64(&mtr.ActiveClients, 1)
handleREQ_enter(h) ==
  /\ h \in 1..Len(handlers)
  /\ handlers[h].kind = "REQ" /\ handlers[h].pc = "registered"
  /\ mtr' = [mtr EXCEPT !.ActiveClients = AddInt64(@, 1)]
  /\ handlers' = [handlers EXCEPT ![h].pc = "meta"]
  /\ UNCHANGED <<active, c2s, s2c, faults, hist>>
  /\ UNCHANGED srv
  /\ UNCHANGED clientVars

handleREQ_meta(h) ==
  /\ h \in 1..Len(handlers)
  /\ handlers[h].kind = "REQ" /\ handlers[h].pc = "meta"
  /\ WriteToUDP(packMETA(handlers[h].entry.meta), handlers[h].addr, handlers[h].conn)
  /\ handlers' = [Wrote(h, packMETA(handlers[h].entry.meta)) EXCEPT
                    ![h].pc = "data", ![h].i = 0]
  /\ UNCHANGED <<active, mtr, c2s, faults, hist>>
  /\ UNCHANGED srv
  /\ UNCHANGED clientVars

\* one iteration of the blast loop: DATA frame i, then the counters
handleREQ_data(h) ==
  /\ h \in 1..Len(handlers)
  /\ handlers[h].kind = "REQ" /\ handlers[h].pc = "data"
  /\ LET g == handlers[h]
         chunks == g.entry.chunks
     IN IF g.i < Len(chunks)
        THEN LET chunk == chunks[g.i + 1]
                 pkt == DataPacket(DataHeader(g.i, Len(chunks), BLen(chunk), CRC32(chunk)), chunk)
             IN /\ WriteToUDP(pkt, g.addr, g.conn)
                /\ mtr' = [mtr EXCEPT !.BytesSent = AddUint64(@, BytesWritten(g.conn, pkt)),
                                      !.SegmentsSent = AddUint64(@, 1)]
                /\ handlers' = [Wrote(h, pkt) EXCEPT ![h].i = g.i + 1]
        ELSE /\ handlers' = [handlers EXCEPT ![h].pc = "eof"]
             /\ UNCHANGED <<mtr, s2c>>
  /\ UNCHANGED <<active, c2s, faults, hist>>
  /\ UNCHANGED srv
  /\ UNCHANGED clientVars

handleREQ_eof(h) ==
  /\ h \in 1..Len(handlers)
  /\ handlers[h].kind = "REQ" /\ handlers[h].pc = "eof"
  /\ WriteToUDP(packEOF, handlers[h].addr, handlers[h].conn)
  /\ handlers' = [Wrote(h, packEOF) EXCEPT ![h].pc = "return"]
  /\ UNCHANGED <<active, mtr, c2s, faults, hist>>
  /\ UNCHANGED srv
  /\ UNCHANGED clientVars

\* the deferred atomic.AddInt64(&mtr.ActiveClients, -1)
handleREQ_return(h) ==
  /\ h \in 1..Len(handlers)
  /\ handlers[h].kind = "REQ" /\ handlers[h].pc = "return"
  /\ mtr' = [mtr EXCEPT !.ActiveClients = AddInt64(@, -1)]
  /\ Return(h)
  /\ UNCHANGED <<active, c2s, s2c, faults>>
  /\ UNCHANGED srv
  /\ UNCHANGED clientVars

\* a test that leaves the last chunk out
inRange_strict(seq, chunks) == seq + 1 < Len(chunks)

\* int(seq) < len(entry.chunks)
inRange(seq, chunks) == seq < Len(chunks)

\* handleNACK: count the NACK and look the session up
handleNACK_lookup(h) ==
  /\ h \in 1..Len(handlers)
  /\ handlers[h].kind = "NACK" /\ handlers[h].pc = "start"
  /\ mtr' = [mtr EXCEPT !.NacksReceived = AddUint64(@, 1)]
  /\ LET entry == active[handlers[h].addr] IN
     IF ~entry.present
     THEN Return(h)
     ELSE /\ handlers' = [handlers EXCEPT ![h].pc = "resend", ![h].entry = entry,
                                          ![h].i = 1]
          /\ UNCHANGED hist
  /\ UNCHANGED <<active, c2s, s2c, faults>>
  /\ UNCHANGED srv
  /\ UNCHANGED clientVars

\* one iteration of the loop over nack.Missing
handleNACK_resend(h) ==
  /\ h \in 1..Len(handlers)
  /\ handlers[h].kind = "NACK" /\ handlers[h].pc = "resend"
  /\ LET g == handlers[h]
         chunks == g.entry.chunks
     IN IF g.i > Len(g.missing)
        THEN /\ Return(h)
             /\ UNCHANGED <<mtr, s2c>>
        ELSE LET seq == g.missing[g.i] IN
             IF inRange(seq, chunks)
             THEN LET chunk == chunks[seq + 1]
                      pkt == DataPacket(DataHeader(seq, Len(chunks), BLen(chunk), CRC32(chunk)), chunk)
                  IN /\ WriteToUDP(pkt, g.addr, g.conn)
                     /\ mtr' = [mtr EXCEPT !.BytesSent = AddUint64(@, BytesWritten(g.conn, pkt)),
                                           !.Retransmissions = AddUint64(@, 1)]
                     /\ handlers' = [Wrote(h, pkt) EXCEPT ![h].i = g.i + 1]
                     /\ UNCHANGED hist
             ELSE /\ handlers' = [handlers EXCEPT ![h].i = g.i + 1]
                  /\ UNCHANGED <<mtr, s2c, hist>>
  /\ UNCHANGED <<active, c2s, faults>>
  /\ UNCHANGED srv
  /\ UNCHANGED clientVars

\* ------------------------------------------------------------------------
\* Drop policy (package clientudp)
\* ------------------------------------------------------------------------
\* Rates and samples of rnd.Float64() are in hundredths: rate 100 is 1.0.
DropRates == {0, 50, 100}

\* the samples rnd.Float64() can return: any value of [0,1), represented by
\* its extremes, or only low values for the stream "low"
Samples(d) == IF d.stream = "low" THEN {0} ELSE {0, 99}

NoPolicy == [nil |-> TRUE, rate |-> 0, stream |-> "any", dropped |-> {}]

\* NewDrop
NewDrop(rate, stream) ==
  IF rate <= 0 THEN NoPolicy
  ELSE [nil |-> FALSE, rate |-> rate, stream |-> stream, dropped |-> {}]

\* a policy that draws but does not remember what it dropped
ShouldDrop_forgets(d, seq, sample) ==
  IF d.nil THEN [res |-> FALSE, d |-> d]
  ELSE IF d.rate <= 0 THEN [res |-> FALSE, d |-> d]
  ELSE IF seq \in d.dropped THEN [res |-> FALSE, d |-> d]
  ELSE [res |-> sample < d.rate, d |-> d]

\* ShouldDrop with the sample the generator returns if it is asked:
\* the result and the policy afterwards
ShouldDrop(d, seq, sample) ==
  IF d.nil THEN [res |-> FALSE, d |-> d]
  ELSE IF d.rate <= 0 THEN [res |-> FALSE, d |-> d]
  ELSE IF seq \in d.dropped THEN [res |-> FALSE, d |-> d]
  ELSE IF sample < d.rate
       THEN [res |-> TRUE, d |-> [d EXCEPT !.dropped = @ \cup {seq}]]
       ELSE [res |-> FALSE, d |-> d]

\* ------------------------------------------------------------------------
\* Client transfer engine (package clientudp)
\* ------------------------------------------------------------------------
LogHeadTail == 10

LogLimit == 20

RECURSIVE MissingFrom(_, _, _)
MissingFrom(i, total, rcv) ==
  IF i >= total THEN <<>>
  ELSE (IF i \in DOMAIN rcv THEN <<>> ELSE <<i>>) \o MissingFrom(i + 1, total, rcv)

\* a scan that starts at sequence 1
computeMissing_fromOne(total, rcv) == MissingFrom(1, total, rcv)

computeMissing(total, rcv) == MissingFrom(0, total, rcv)

\* What runNackRounds holds in `missing` when it packs the NACK.  With a log
\* callback and more than 20 entries, append(missing[:10], missing[len-10:]...)
\* writes the last 10 entries over positions 10..19 of the same array.
MissingAfterLog(missing, hasLog) ==
  IF hasLog /\ Len(missing) > LogLimit
  THEN [j \in 1..Len(missing) |->
          IF j > LogHeadTail /\ j <= 2 * LogHeadTail
          THEN missing[Len(missing) - 2 * LogHeadTail + j]
          ELSE missing[j]]
  ELSE missing

\* a comparison that lets every payload through
crcMatches_always(payload, crc) == TRUE

\* the CRC test of processPacket: the payload against the header's field
crcMatches(payload, crc) == CRC32(payload) = crc

\* a test that takes every control frame that decodes for EOF
isEOF_anyCtrl(dec) == ~dec.err

\* err == nil && typ == protocol.TypeEOF
isEOF(dec) == ~dec.err /\ dec.typ = "EOF"

\* processPacket on the datagram b as read into the buffer; sample is the
\* value the drop policy's generator returns if it is asked.  Returns what
\* the call does: isEOF, whether it panics, and the maps and counters after.
processPacket(b, rcv, c, d, sample) ==
  LET same == [isEOF |-> FALSE, panic |-> FALSE, recv |-> rcv, ctr |-> c,
               drop |-> d, stored |-> FALSE, asked |-> FALSE, dropped |-> FALSE,
               why |-> "ctrl"]
  IN
  IF IsCtrl(b)
  THEN LET dec == DecodeCtrl(b) IN
       [same EXCEPT !.isEOF = isEOF(dec)]
  ELSE LET u == UnpackHeader(HeaderBytes(b)) IN
  IF u.err THEN [same EXCEPT !.why = "header"]
  ELSE IF b.dlen < dataHeaderSize THEN [same EXCEPT !.panic = TRUE, !.why = "panic"]
  ELSE IF b.dlen < dataHeaderSize + u.h.Size THEN [same EXCEPT !.why = "short"]
  ELSE LET payload == BSlice(b.payload, 0, u.h.Size)
           sd == ShouldDrop(d, u.h.Seq, sample)
           afterDrop == [same EXCEPT !.drop = sd.d, !.asked = ~d.nil,
                                     !.dropped = sd.res]
       IN IF ~d.nil /\ sd.res THEN [afterDrop EXCEPT !.why = "drop"]
          ELSE IF ~crcMatches(payload, u.h.CRC32) THEN [afterDrop EXCEPT !.why = "crc"]
          ELSE IF u.h.Seq \in DOMAIN rcv THEN [afterDrop EXCEPT !.why = "dup"]
          ELSE [afterDrop EXCEPT
                  !.recv = (u.h.Seq :> payload) @@ rcv,
                  !.ctr = [bytes |-> c.bytes + BLen(payload), segs |-> c.segs + 1],
                  !.stored = TRUE, !.why = "stored"]

RecvPrefix == <<"r", "e", "c", "v", "_">>

CorruptSuffix == <<".", "c", "o", "r", "r", "u", "p", "t">>

\* a poll that never finds the channel closed
cancelClosed_never == FALSE

\* select { case <-cfg.Cancel: ... default: }: the channel is closed
cancelClosed == cancel

\* a loop that stops one attempt early
moreAttempts_short(try, attempts) == try + 1 < attempts

\* try++ ; try <= attempts: another attempt follows
moreAttempts(try, attempts) == try + 1 <= attempts

\* a switch without the ERR case
isErrReply_never(dec) == FALSE

\* case protocol.TypeERR of the wait for META
isErrReply(dec) == ~dec.err /\ dec.typ = "ERR"

\* an output path that does not depend on the comparison
finalPath_same(baseOut, match) == baseOut

\* where assembleAndVerify writes: baseOut, or baseOut + ".corrupt"
finalPath(baseOut, match) == IF match THEN baseOut ELSE baseOut \o CorruptSuffix

\* a budget with a floor of 3 for every Retries value
budgetOf_floor(retries) == IF retries < DefaultAttempts THEN DefaultAttempts ELSE retries

\* attempts := cfg.Retries; if attempts <= 0 { attempts = 3 }, and the same
\* for maxRounds in receiveData
budgetOf(retries) == IF retries <= 0 THEN DefaultAttempts ELSE retries

\* transferOnce returns ("", false, err)
Fail(kind, msg) ==
  /\ cl' = [cl EXCEPT !.pc = "ret", !.err = kind, !.msg = msg,
                      !.out = <<>>, !.ok = FALSE]
  /\ UNCHANGED calls

\* sendREQAndGetMeta: one attempt starts: REQ is written, the deadline set
sendREQ ==
  /\ cl.pc = "p1_send"
  /\ c2s' = Append(c2s, Datagram(ClientAddr, packREQ(cfg.Path)))
  /\ timer' = [timer EXCEPT !.expired = FALSE]
  /\ cl' = [cl EXCEPT !.pc = "p1_poll"]
  /\ hist' = [hist EXCEPT !.reqSent = @ + 1]
  /\ UNCHANGED <<cfg, recv, ctr, drop, cancel, files, calls, s2c, faults>>
  /\ UNCHANGED serverVars

\* the cancel poll at the head of the wait loop
metaPoll ==
  /\ cl.pc = "p1_poll"
  /\ IF cfg.hasCancel /\ cancelClosed
     THEN Fail("Canceled", "")
     ELSE cl' = [cl EXCEPT !.pc = "p1_read"] /\ UNCHANGED calls
  /\ UNCHANGED <<cfg, recv, ctr, drop, timer, cancel, files, c2s, s2c, faults, hist>>
  /\ UNCHANGED serverVars

\* ReadFromUDP fails: the attempt is over
metaTimeout ==
  /\ cl.pc = "p1_read"
  /\ timer.expired
  /\ IF moreAttempts(cl.try, cl.attempts)
     THEN cl' = [cl EXCEPT !.pc = "p1_send", !.try = cl.try + 1] /\ UNCHANGED calls
     ELSE Fail("MetaTimeout", "")
  /\ UNCHANGED <<cfg, recv, ctr, drop, timer, cancel, files, c2s, s2c, faults, hist>>
  /\ UNCHANGED serverVars

\* a wait that gives the attempt up on a datagram it does not expect
afterOther_break == "p1_send"

\* continue: after a datagram that is neither META nor ERR the wait loop
\* goes on with its cancel poll and the next read
afterOther == "p1_poll"

\* ReadFromUDP returns the k-th datagram in flight
metaRead(k) ==
  /\ cl.pc = "p1_read"
  /\ ~timer.expired
  /\ k \in 1..Len(s2c)
  /\ s2c' = RemoveAt(s2c, k)
  /\ LET b == ReadInto(s2c[k], ClientMetaBufSize)
         dec == IF IsCtrl(b) THEN DecodeCtrl(b) ELSE DecodeErr
     IN IF ~dec.err /\ dec.typ = "META"
        THEN /\ cl' = [cl EXCEPT !.pc = "p2_poll", !.meta = dec.val,
                                 !.maxRounds = budgetOf(cfg.Retries),
                                 !.eof = FALSE, !.idleCount = 0]
             /\ calls' = Append(calls, [cb |-> "OnMeta"])
             /\ UNCHANGED hist
        ELSE IF isErrReply(dec)
        THEN Fail("ServerError", dec.val.Message) /\ UNCHANGED hist
        ELSE /\ cl' = [cl EXCEPT !.pc = afterOther]
             /\ hist' = [hist EXCEPT !.passedOver =
                          IF Len(@) < MaxFaults
                          THEN Append(@, [phase |-> cl.pc, b |-> s2c[k]]) ELSE @]
             /\ UNCHANGED calls
  /\ UNCHANGED <<cfg, recv, ctr, drop, timer, cancel, files, c2s, faults>>
  /\ UNCHANGED serverVars

\* a loop that goes on after EOF
loopEnds_never(eof) == FALSE

\* the loop condition of receiveUntilIdleOrEOF, for !eof
loopEnds(eof) == eof

\* receiveUntilIdleOrEOF: loop condition and cancel poll
blastPoll ==
  /\ cl.pc = "p2_poll"
  /\ IF loopEnds(cl.eof)
     THEN cl' = [cl EXCEPT !.pc = "p3_top", !.rounds = 0] /\ UNCHANGED calls
     ELSE IF cancelClosed
     THEN Fail("Canceled", "")
     ELSE cl' = [cl EXCEPT !.pc = "p2_read"] /\ UNCHANGED calls
  /\ UNCHANGED <<cfg, recv, ctr, drop, timer, cancel, files, c2s, s2c, faults, hist>>
  /\ UNCHANGED serverVars

\* ReadFromUDP fails in the initial reception
blastTimeout ==
  /\ cl.pc = "p2_read"
  /\ timer.expired
  /\ LET idle == cl.idleCount + 1
         maxIdleIncreased == cl.maxRounds * IdleFactor
     IN IF Cardinality(DOMAIN recv) > 0 /\ idle >= maxIdleIncreased
        THEN /\ cl' = [cl EXCEPT !.pc = "p3_top", !.rounds = 0, !.idleCount = idle]
             /\ UNCHANGED <<calls, timer>>
        ELSE IF idle > maxIdleIncreased
        THEN Fail("NoDataReceived", "") /\ UNCHANGED timer
        ELSE /\ cl' = [cl EXCEPT !.pc = "p2_poll", !.idleCount = idle]
             /\ timer' = [timer EXCEPT !.expired = FALSE]
             /\ UNCHANGED calls
  /\ UNCHANGED <<cfg, recv, ctr, drop, cancel, files, c2s, s2c, faults, hist>>
  /\ UNCHANGED serverVars

\* what a processPacket call leaves in the maps, counters and callbacks
Processed(r, b) ==
  /\ recv' = r.recv
  /\ ctr' = r.ctr
  /\ drop' = r.drop
  /\ calls' = IF r.stored
              THEN Append(calls, [cb |-> "OnProgress", bytes |-> r.ctr.bytes,
                                  segs |-> r.ctr.segs])
              ELSE calls
  /\ hist' = [hist EXCEPT
       !.storedFrom = IF r.stored THEN (b.seq :> b) @@ @ ELSE @,
       !.refused = IF r.why \in {"crc", "dup"} THEN @ \cup {[seq |-> b.seq, why |-> r.why]}
                   ELSE @,
       !.dropTrue = IF r.dropped THEN Append(@, [seq |-> b.seq, phase |-> cl.pc]) ELSE @,
       !.passedOver = IF r.why = "ctrl" /\ ~r.isEOF /\ Len(@) < MaxFaults
                      THEN Append(@, [phase |-> cl.pc, b |-> b]) ELSE @]

\* ReadFromUDP returns the k-th datagram in flight in the initial reception
blastRead(k) ==
  /\ cl.pc = "p2_read"
  /\ ~timer.expired
  /\ k \in 1..Len(s2c)
  /\ s2c' = RemoveAt(s2c, k)
  /\ \E sample \in Samples(drop) :
       LET b == ReadInto(s2c[k], dataHeaderSize + ChunkSize)
           r == processPacket(b, recv, ctr, drop, sample)
       IN /\ Processed(r, b)
          /\ cl' = IF r.panic THEN [cl EXCEPT !.pc = "panic"]
                   ELSE [cl EXCEPT !.pc = "p2_poll", !.idleCount = 0,
                                   !.eof = r.isEOF]
  /\ UNCHANGED <<cfg, timer, cancel, files, c2s, faults>>
  /\ UNCHANGED serverVars

\* a budget test that lets one more round through
budgetUsed_late(rounds, maxRounds) == rounds > maxRounds

\* the budget test of runNackRounds
budgetUsed(rounds, maxRounds) == rounds >= maxRounds

\* runNackRounds: head of a round.  Cancel poll, the missing list, the
\* budget check, then the NACK is written and the round's deadlines are set.
nackRound ==
  /\ cl.pc = "p3_top"
  /\ LET missing == computeMissing(cl.meta.Total, recv) IN
     IF cancelClosed
     THEN Fail("Canceled", "") /\ UNCHANGED <<c2s, timer, hist>>
     ELSE IF Len(missing) = 0
     THEN /\ cl' = [cl EXCEPT !.pc = "assemble"]
          /\ UNCHANGED <<calls, c2s, timer, hist>>
     ELSE IF budgetUsed(cl.rounds, cl.maxRounds)
     THEN Fail("IncompleteTransfer", "") /\ UNCHANGED <<c2s, timer, hist>>
     ELSE LET sent == MissingAfterLog(missing, cfg.hasLog) IN
          /\ c2s' = Append(c2s, Datagram(ClientAddr, packNACK(sent)))
          /\ timer' = [expired |-> FALSE, roundOver |-> FALSE]
          /\ cl' = [cl EXCEPT !.pc = "p3_loop", !.rounds = cl.rounds + 1]
          /\ hist' = [hist EXCEPT !.nacks = Append(@, [listed |-> sent, missing |-> missing])]
          /\ UNCHANGED calls
  /\ UNCHANGED <<cfg, recv, ctr, drop, cancel, files, s2c, faults>>
  /\ UNCHANGED serverVars

\* a round that does not look at its deadline
roundEnds_never(roundOver) == FALSE

\* the loop condition of a round, negated: the round's deadline has passed
roundEnds(roundOver) == roundOver

\* the inner loop of a round: deadline test and cancel poll
roundPoll ==
  /\ cl.pc = "p3_loop"
  /\ IF roundEnds(timer.roundOver)
     THEN cl' = [cl EXCEPT !.pc = "p3_top"] /\ UNCHANGED calls
     ELSE IF cancelClosed
     THEN Fail("Canceled", "")
     ELSE cl' = [cl EXCEPT !.pc = "p3_read"] /\ UNCHANGED calls
  /\ UNCHANGED <<cfg, recv, ctr, drop, timer, cancel, files, c2s, s2c, faults, hist>>
  /\ UNCHANGED serverVars

\* ReadFromUDP fails inside a round: shorter deadline, keep going
roundTimeout ==
  /\ cl.pc = "p3_read"
  /\ timer.expired
  /\ timer' = [timer EXCEPT !.expired = FALSE]
  /\ cl' = [cl EXCEPT !.pc = "p3_loop"]
  /\ UNCHANGED <<cfg, recv, ctr, drop, cancel, files, calls, c2s, s2c, faults, hist>>
  /\ UNCHANGED serverVars

\* ReadFromUDP returns the k-th datagram in flight inside a round
roundRead(k) ==
  /\ cl.pc = "p3_read"
  /\ ~timer.expired
  /\ k \in 1..Len(s2c)
  /\ s2c' = RemoveAt(s2c, k)
  /\ \E sample \in Samples(drop) :
       LET b == ReadInto(s2c[k], dataHeaderSize + ChunkSize)
           r == processPacket(b, recv, ctr, drop, sample)
       IN /\ Processed(r, b)
          /\ cl' = IF r.panic THEN [cl EXCEPT !.pc = "panic"]
                   ELSE [cl EXCEPT !.pc = "p3_loop"]
  /\ UNCHANGED <<cfg, timer, cancel, files, c2s, faults>>
  /\ UNCHANGED serverVars

\* the directories that exist where the client runs
ClientDirs == {<<"D">>}

\* the output path assembleAndVerify writes to when the hashes match
ResolvedPath(meta, outputPath) ==
  IF outputPath = <<>> THEN RecvPrefix \o Base(meta.Filename) ELSE outputPath

\* assembleAndVerify, the last step of transferOnce
assembleAndVerify ==
  /\ cl.pc = "assemble"
  /\ LET miss == computeMissing(cl.meta.Total, recv) IN
     IF Len(miss) > 0
     THEN Fail("IncompleteTransfer", "") /\ UNCHANGED files
     ELSE LET chunks == [i \in 1..cl.meta.Total |->
                           IF i - 1 \in DOMAIN recv THEN recv[i - 1] ELSE <<>>]
              computed == SHA256FileChunks(chunks)
              match == computed = cl.meta.SHA256
              baseOut == ResolvedPath(cl.meta, cfg.OutputPath)
              final == finalPath(baseOut, match)
          IN IF final \in ClientDirs
             THEN \* os.Create of a directory fails
                  Fail("CreateFailed", "") /\ UNCHANGED files
             ELSE /\ files' = (final :> Norm(ConcatAll(chunks))) @@ files
                  /\ cl' = [cl EXCEPT !.pc = "ret", !.out = final, !.ok = match,
                                      !.err = IF match THEN "none" ELSE "IntegrityMismatch"]
                  /\ UNCHANGED calls
  /\ UNCHANGED <<cfg, recv, ctr, drop, timer, cancel, c2s, s2c, faults, hist>>
  /\ UNCHANGED serverVars

\* RunTransfer after transferOnce has returned: the deferred conn.Close()
\* has run, so what was still queued for the socket is gone; OnDone reports
RunTransfer ==
  /\ cl.pc = "ret"
  /\ cl' = [cl EXCEPT !.pc = "done"]
  /\ calls' = Append(calls, [cb |-> "OnDone", out |-> cl.out, ok |-> cl.ok])
  /\ s2c' = <<>>
  /\ UNCHANGED <<cfg, recv, ctr, drop, timer, cancel, files, c2s, faults, hist>>
  /\ UNCHANGED serverVars

\* ------------------------------------------------------------------------
\* Environment: time, the user, the network
\* ------------------------------------------------------------------------
Reading == cl.pc \in {"p1_read", "p2_read", "p3_read"}

\* the read deadline of the client socket passes
Tick ==
  /\ Reading
  /\ ~timer.expired
  /\ timer' = [timer EXCEPT !.expired = TRUE]
  /\ UNCHANGED <<cfg, cl, recv, ctr, drop, cancel, files, calls, c2s, s2c, faults, hist>>
  /\ UNCHANGED serverVars

\* the deadline of the NACK round passes
RoundTick ==
  /\ cl.pc \in {"p3_loop", "p3_read"}
  /\ ~timer.roundOver
  /\ timer' = [timer EXCEPT !.roundOver = TRUE]
  /\ UNCHANGED <<cfg, cl, recv, ctr, drop, cancel, files, calls, c2s, s2c, faults, hist>>
  /\ UNCHANGED serverVars

\* the user closes the cancel channel
Cancel ==
  /\ cfg.hasCancel
  /\ ~cancel
  /\ ~Closed
  /\ cancel' = TRUE
  /\ UNCHANGED <<cfg, cl, recv, ctr, drop, timer, files, calls, c2s, s2c, faults, hist>>
  /\ UNCHANGED serverVars

\* nothing is in flight and no handler is running
Quiescent ==
  /\ c2s = <<>> /\ s2c = <<>> /\ handlers = <<>>
  /\ \A l \in 1..Len(srv.loops) : srv.loops[l].got = <<>>

\* a datagram on its way to the server is lost
LoseC2S(k) ==
  /\ k \in 1..Len(c2s)
  /\ c2s' = RemoveAt(c2s, k)
  /\ UNCHANGED <<s2c, faults, hist>>
  /\ UNCHANGED clientVars
  /\ UNCHANGED serverVars

\* a datagram on its way to the client is lost
LoseS2C(k) ==
  /\ ~Closed
  /\ k \in 1..Len(s2c)
  /\ s2c' = RemoveAt(s2c, k)
  /\ UNCHANGED <<c2s, faults, hist>>
  /\ UNCHANGED clientVars
  /\ UNCHANGED serverVars

\* a datagram on its way to the client is delivered twice
DupS2C(k) ==
  /\ faults < MaxFaults
  /\ ~Closed
  /\ k \in 1..Len(s2c)
  /\ s2c' = Append(s2c, s2c[k])
  /\ faults' = faults + 1
  /\ UNCHANGED <<c2s, hist>>
  /\ UNCHANGED clientVars
  /\ UNCHANGED serverVars

\* a payload byte of a DATA datagram changes on the way to the client
CorruptS2C(k) ==
  /\ faults < MaxFaults
  /\ ~Closed
  /\ k \in 1..Len(s2c)
  /\ s2c[k].magic = "UD" /\ s2c[k].payload # <<>>
  /\ s2c' = [s2c EXCEPT ![k].payload = FlipFirstByte(@)]
  /\ faults' = faults + 1
  /\ hist' = [hist EXCEPT !.corrupted = @ \cup {s2c'[k]}]
  /\ UNCHANGED c2s
  /\ UNCHANGED clientVars
  /\ UNCHANGED serverVars

\* datagrams that reach the client without the server having sent them now:
\* a well-formed DATA frame with foreign content and a stray EOF
Zeroed == <<[b |-> 0, n |-> ChunkSize]>>

ForeignFrames ==
  {DataPacket(DataHeader(0, 3, ChunkSize, CRC32(Zeroed)), Zeroed), packEOF}

InjectS2C(b) ==
  /\ faults < MaxFaults
  /\ b \in ForeignFrames
  /\ ~Closed
  /\ s2c' = Append(s2c, b)
  /\ faults' = faults + 1
  /\ UNCHANGED <<c2s, hist>>
  /\ UNCHANGED clientVars
  /\ UNCHANGED serverVars


\* ------------------------------------------------------------------------
\* Specifications
\* ------------------------------------------------------------------------
InitClient(c) ==
  /\ cfg = c
  /\ cl = [pc |-> "p1_send", try |-> 1,
           attempts |-> budgetOf(c.Retries),
           meta |-> NoMeta, eof |-> FALSE, idleCount |-> 0, maxRounds |-> 0,
           rounds |-> 0, out |-> <<>>, ok |-> FALSE, err |-> "", msg |-> ""]
  /\ recv = <<>>
  /\ ctr = [bytes |-> 0, segs |-> 0]
  /\ drop = NewDrop(c.rate, c.stream)
  /\ timer = [expired |-> FALSE, roundOver |-> FALSE]
  /\ cancel = FALSE
  /\ files = <<>>
  /\ calls = <<>>

\* the server before the first Start
NotStarted == [running |-> FALSE, conn |-> 0, open |-> <<>>, loops |-> <<>>]

\* the server after Start: one socket, one packetLoop blocked in its read
Started == [running |-> TRUE, conn |-> 1, open |-> <<TRUE>>,
            loops |-> <<[conn |-> 1, pc |-> "read", got |-> <<>>]>>]

\* no session, no handler, counters at zero
InitSessions ==
  /\ active = [p \in Peers |-> NoEntry]
  /\ mtr = NoMetrics
  /\ handlers = <<>>

InitServer == srv = Started /\ InitSessions

InitNet ==
  /\ c2s = <<>>
  /\ s2c = <<>>
  /\ faults = 0
  /\ hist = [served |-> {}, reqSent |-> 0, nacks |-> <<>>,
             storedFrom |-> <<>>, dropTrue |-> <<>>, corrupted |-> {},
             refused |-> {}, shouldDrop |-> <<>>, startCalls |-> 0,
             stopCalls |-> 0, stopsAtStart |-> 0, sentByPeer |-> 0,
             errWith |-> {},
             wrote |-> [blast |-> 0, resent |-> 0, nacks |-> 0, bytes |-> 0],
             codec |-> <<>>,
             snap |-> [pc |-> 0, cur |-> NoMetrics, done |-> <<>>],
             stray |-> <<>>, passedOver |-> <<>>]

Config(path, retries, out, rate, stream, hasCancel, hasLog) ==
  [Path |-> path, Retries |-> retries, OutputPath |-> out, rate |-> rate,
   stream |-> stream, hasCancel |-> hasCancel, hasLog |-> hasLog]

\* --- Spec: the unreliable network.  Datagrams are lost and overtake each
\* other, deadlines pass at any time, the user cancels at any time.
Configs ==
  {Config(<<"c">>, 1, <<>>, rate, "any", hc, TRUE) : rate \in {0, 50}, hc \in BOOLEAN}
  \cup {Config(p, r, <<>>, 0, "any", TRUE, TRUE) : p \in {<<"e">>, <<"x">>}, r \in {0, 2}}

Init == (\E c \in Configs : InitClient(c)) /\ InitServer /\ InitNet

Next ==
  \/ \E h \in 1..MaxHandlers : handleREQ_load(h)
  \/ \E h \in 1..MaxHandlers : handleREQ_enter(h)
  \/ \E h \in 1..MaxHandlers : handleREQ_meta(h)
  \/ \E h \in 1..MaxHandlers : handleREQ_data(h)
  \/ \E h \in 1..MaxHandlers : handleREQ_eof(h)
  \/ \E h \in 1..MaxHandlers : handleREQ_return(h)
  \/ \E h \in 1..MaxHandlers : handleNACK_lookup(h)
  \/ \E h \in 1..MaxHandlers : handleNACK_resend(h)
  \/ packetLoop_read(1, 1)
  \/ dispatchCtrl(1)
  \/ sendREQ
  \/ metaPoll
  \/ metaTimeout
  \/ \E k \in 1..ReorderWindow : metaRead(k)
  \/ blastPoll
  \/ blastTimeout
  \/ \E k \in 1..ReorderWindow : blastRead(k)
  \/ nackRound
  \/ roundPoll
  \/ roundTimeout
  \/ \E k \in 1..ReorderWindow : roundRead(k)
  \/ assembleAndVerify
  \/ RunTransfer
  \/ Tick
  \/ RoundTick
  \/ Cancel
  \/ \E k \in 1..Len(c2s) : LoseC2S(k)
  \/ \E k \in 1..Len(s2c) : LoseS2C(k)

Spec == Init /\ [][Next]_vars

\* --- SpecNoisy: datagrams are also duplicated, corrupted and forged (at
\* most MaxFaults times); the client reads in arrival order, nobody cancels.
NoisyConfigs ==
  {Config(<<"b">>, 1, <<>>, rate, "any", FALSE, TRUE) : rate \in {0, 50}}
  \cup {Config(<<"c">>, 1, <<>>, 0, "any", FALSE, TRUE)}

InitNoisy == (\E c \in NoisyConfigs : InitClient(c)) /\ InitServer /\ InitNet

NextNoisy ==
  \/ \E h \in 1..MaxHandlers : handleREQ_load(h)
  \/ \E h \in 1..MaxHandlers : handleREQ_enter(h)
  \/ \E h \in 1..MaxHandlers : handleREQ_meta(h)
  \/ \E h \in 1..MaxHandlers : handleREQ_data(h)
  \/ \E h \in 1..MaxHandlers : handleREQ_eof(h)
  \/ \E h \in 1..MaxHandlers : handleREQ_return(h)
  \/ \E h \in 1..MaxHandlers : handleNACK_lookup(h)
  \/ \E h \in 1..MaxHandlers : handleNACK_resend(h)
  \/ packetLoop_read(1, 1)
  \/ dispatchCtrl(1)
  \/ sendREQ
  \/ metaPoll
  \/ metaTimeout
  \/ metaRead(1)
  \/ blastPoll
  \/ blastTimeout
  \/ blastRead(1)
  \/ nackRound
  \/ roundPoll
  \/ roundTimeout
  \/ roundRead(1)
  \/ assembleAndVerify
  \/ RunTransfer
  \/ Tick
  \/ RoundTick
  \/ \E k \in 1..Len(c2s) : LoseC2S(k)
  \/ \E k \in 1..Len(s2c) : LoseS2C(k)
  \/ \E k \in 1..Len(s2c) : DupS2C(k)
  \/ \E k \in 1..Len(s2c) : CorruptS2C(k)
  \/ \E b \in ForeignFrames : InjectS2C(b)

SpecNoisy == InitNoisy /\ [][NextNoisy]_vars

\* --- The cooperative network: every datagram is delivered once, in
\* order, and before any deadline that waits for it.
\* a deadline passes only when nothing is on its way
IdleTick == Quiescent /\ Tick

IdleRoundTick == Quiescent /\ RoundTick

\* SpecCoop: no drop policy; every file of the base directory
CoopConfigs ==
  {Config(p, r, o, 0, "any", FALSE, TRUE) :
     p \in DOMAIN RegularFiles, r \in {0, 1, 2}, o \in {<<>>, <<"o">>}}

InitCoop == (\E c \in CoopConfigs : InitClient(c)) /\ InitServer /\ InitNet

NextCoop ==
  \/ \E h \in 1..MaxHandlers : handleREQ_load(h)
  \/ \E h \in 1..MaxHandlers : handleREQ_enter(h)
  \/ \E h \in 1..MaxHandlers : handleREQ_meta(h)
  \/ \E h \in 1..MaxHandlers : handleREQ_data(h)
  \/ \E h \in 1..MaxHandlers : handleREQ_eof(h)
  \/ \E h \in 1..MaxHandlers : handleREQ_return(h)
  \/ packetLoop_read(1, 1)
  \/ dispatchCtrl(1)
  \/ sendREQ
  \/ metaPoll
  \/ metaRead(1)
  \/ blastPoll
  \/ blastRead(1)
  \/ nackRound
  \/ assembleAndVerify
  \/ RunTransfer

SpecCoop == InitCoop /\ [][NextCoop]_vars

\* SpecLossy: the cooperative network with a single-shot drop policy of
\* rate 1/2 and Retries >= 2
LossyConfigs ==
  {Config(<<"a">>, r, <<>>, 50, "any", FALSE, TRUE) : r \in {2, 3}}
  \cup {Config(<<"d">>, 2, <<>>, 50, "low", FALSE, hl) : hl \in BOOLEAN}

InitLossy == (\E c \in LossyConfigs : InitClient(c)) /\ InitServer /\ InitNet

NextLossy ==
  \/ \E h \in 1..MaxHandlers : handleREQ_load(h)
  \/ \E h \in 1..MaxHandlers : handleREQ_enter(h)
  \/ \E h \in 1..MaxHandlers : handleREQ_meta(h)
  \/ \E h \in 1..MaxHandlers : handleREQ_data(h)
  \/ \E h \in 1..MaxHandlers : handleREQ_eof(h)
  \/ \E h \in 1..MaxHandlers : handleREQ_return(h)
  \/ \E h \in 1..MaxHandlers : handleNACK_lookup(h)
  \/ \E h \in 1..MaxHandlers : handleNACK_resend(h)
  \/ packetLoop_read(1, 1)
  \/ dispatchCtrl(1)
  \/ sendREQ
  \/ metaPoll
  \/ metaRead(1)
  \/ blastPoll
  \/ blastRead(1)
  \/ nackRound
  \/ roundPoll
  \/ roundTimeout
  \/ roundRead(1)
  \/ assembleAndVerify
  \/ RunTransfer
  \/ IdleTick
  \/ IdleRoundTick

SpecLossy == InitLossy /\ [][NextLossy]_vars

\* --- SpecDrop: a DropPolicy under arbitrary calls of ShouldDrop
DropSeqs == {0, 1, 2}

\* one call of ShouldDrop(seq); the result is added to the observation
DropCall(seq) ==
  /\ Len(hist.shouldDrop) < MaxDropCalls
  /\ \E sample \in Samples(drop) :
       LET r == ShouldDrop(drop, seq, sample) IN
       /\ drop' = r.d
       /\ hist' = [hist EXCEPT !.shouldDrop =
                     Append(@, [seq |-> seq, res |-> r.res,
                                already |-> seq \in drop.dropped])]
  /\ UNCHANGED <<cfg, cl, recv, ctr, timer, cancel, files, calls, c2s, s2c, faults>>
  /\ UNCHANGED serverVars

InitDrop ==
  /\ \E rate \in DropRates, stream \in {"any", "low"} :
       InitClient(Config(<<"e">>, 1, <<>>, rate, stream, FALSE, FALSE))
  /\ InitServer
  /\ InitNet

NextDrop == \E seq \in DropSeqs : DropCall(seq)

SpecDrop == InitDrop /\ [][NextDrop]_vars

\* --- SpecReq: the server alone; a peer sends one REQ with any path of at
\* most MaxPathLen characters
PathChars == {"/", ".", "a"}

PeerSendsREQ(path) ==
  /\ c2s = <<>> /\ handlers = <<>> /\ hist.served = {} /\ hist.reqSent = 0
  /\ c2s' = <<Datagram(OtherAddr, packREQ(path))>>
  /\ hist' = [hist EXCEPT !.reqSent = 1]
  /\ UNCHANGED <<s2c, faults>>
  /\ UNCHANGED clientVars
  /\ UNCHANGED serverVars

InitReq ==
  /\ InitClient(Config(<<"e">>, 1, <<>>, 0, "any", FALSE, FALSE))
  /\ InitServer
  /\ InitNet

NextReq ==
  \/ \E path \in Strings(PathChars, MaxPathLen) : PeerSendsREQ(path)
  \/ packetLoop_read(1, 1)
  \/ dispatchCtrl(1)
  \/ \E h \in 1..MaxHandlers : handleREQ_load(h)
  \/ \E h \in 1..MaxHandlers : handleREQ_enter(h)
  \/ \E h \in 1..MaxHandlers : handleREQ_meta(h)
  \/ \E h \in 1..MaxHandlers : handleREQ_data(h)
  \/ \E h \in 1..MaxHandlers : handleREQ_eof(h)
  \/ \E h \in 1..MaxHandlers : handleREQ_return(h)

SpecReq == InitReq /\ [][NextReq]_vars

\* --- SpecRetries: a one-chunk file under every kind of Retries value;
\* datagrams are lost, reads are in order, a deadline passes when nothing
\* is on its way
RetryValues == {-1, 0, 1, 2, 3, 4}

RetryConfigs == {Config(<<"b">>, r, <<>>, 0, "any", FALSE, FALSE) : r \in RetryValues}

InitRetries == (\E c \in RetryConfigs : InitClient(c)) /\ InitServer /\ InitNet

NextRetries ==
  \/ \E h \in 1..MaxHandlers : handleREQ_load(h)
  \/ \E h \in 1..MaxHandlers : handleREQ_enter(h)
  \/ \E h \in 1..MaxHandlers : handleREQ_meta(h)
  \/ \E h \in 1..MaxHandlers : handleREQ_data(h)
  \/ \E h \in 1..MaxHandlers : handleREQ_eof(h)
  \/ \E h \in 1..MaxHandlers : handleREQ_return(h)
  \/ \E h \in 1..MaxHandlers : handleNACK_lookup(h)
  \/ \E h \in 1..MaxHandlers : handleNACK_resend(h)
  \/ packetLoop_read(1, 1)
  \/ dispatchCtrl(1)
  \/ sendREQ
  \/ metaPoll
  \/ metaTimeout
  \/ metaRead(1)
  \/ blastPoll
  \/ blastTimeout
  \/ blastRead(1)
  \/ nackRound
  \/ roundPoll
  \/ roundTimeout
  \/ roundRead(1)
  \/ assembleAndVerify
  \/ RunTransfer
  \/ IdleTick
  \/ IdleRoundTick
  \/ \E k \in 1..Len(c2s) : LoseC2S(k)
  \/ \E k \in 1..Len(s2c) : LoseS2C(k)

SpecRetries == InitRetries /\ [][NextRetries]_vars

\* --- SpecNack: the server alone; a peer sends at most one REQ, and both
\* peers send NACKs with any list of at most two of the sequences below,
\* some of them beyond the last chunk
NackSeqs == {0, 2, 3}

NackLists == Strings(NackSeqs, 2)

PeerSendsNACK(addr, missing) ==
  /\ Len(hist.nacks) < MaxNacks
  /\ c2s' = Append(c2s, Datagram(addr, packNACK(missing)))
  /\ hist' = [hist EXCEPT !.nacks = Append(@, [listed |-> missing, missing |-> missing])]
  /\ UNCHANGED <<s2c, faults>>
  /\ UNCHANGED clientVars
  /\ UNCHANGED serverVars

InitNack ==
  /\ InitClient(Config(<<"e">>, 1, <<>>, 0, "any", FALSE, FALSE))
  /\ InitServer
  /\ InitNet

NextNack ==
  \/ \E path \in {<<"a">>, <<"c">>, <<"e">>} : PeerSendsREQ(path)
  \/ \E addr \in Peers, missing \in NackLists : PeerSendsNACK(addr, missing)
  \/ packetLoop_read(1, 1)
  \/ dispatchCtrl(1)
  \/ \E h \in 1..MaxHandlers : handleREQ_load(h)
  \/ \E h \in 1..MaxHandlers : handleREQ_enter(h)
  \/ \E h \in 1..MaxHandlers : handleREQ_meta(h)
  \/ \E h \in 1..MaxHandlers : handleREQ_data(h)
  \/ \E h \in 1..MaxHandlers : handleREQ_eof(h)
  \/ \E h \in 1..MaxHandlers : handleREQ_return(h)
  \/ \E h \in 1..MaxHandlers : handleNACK_lookup(h)
  \/ \E h \in 1..MaxHandlers : handleNACK_resend(h)

SpecNack == InitNack /\ [][NextNack]_vars

\* --- SpecStop: the life cycle of the server.  Start and Stop are called one
\* after the other (the buttons of the server window), at any moment of the
\* packetLoop goroutines; a peer sends LIST and REQ datagrams.  A goroutine
\* that can run does run.
PeerFrames == {packLIST, packREQ(<<"c">>)}

PeerSends(addr, b) ==
  /\ hist.sentByPeer < MaxDatagrams
  /\ c2s' = Append(c2s, Datagram(addr, b))
  /\ hist' = [hist EXCEPT !.sentByPeer = @ + 1]
  /\ UNCHANGED <<s2c, faults>>
  /\ UNCHANGED clientVars
  /\ UNCHANGED serverVars

InitStop ==
  /\ InitClient(Config(<<"e">>, 1, <<>>, 0, "any", FALSE, FALSE))
  /\ srv = NotStarted
  /\ InitSessions
  /\ InitNet

\* the steps of the packetLoop goroutines
LoopSteps ==
  \E l \in 1..MaxStarts :
    \/ dispatchCtrl(l)
    \/ packetLoop_readErr(l)
    \/ packetLoop_exit(l)

NextStop ==
  \/ Start
  \/ Stop
  \/ \E l \in 1..MaxStarts : packetLoop_read(l, 1)
  \/ \E l \in 1..MaxStarts : dispatchCtrl(l)
  \/ \E l \in 1..MaxStarts : packetLoop_readErr(l)
  \/ \E l \in 1..MaxStarts : packetLoop_exit(l)
  \/ \E h \in 1..MaxHandlers : handleREQ_load(h)
  \/ \E h \in 1..MaxHandlers : handleREQ_enter(h)
  \/ \E h \in 1..MaxHandlers : handleREQ_meta(h)
  \/ \E h \in 1..MaxHandlers : handleREQ_data(h)
  \/ \E h \in 1..MaxHandlers : handleREQ_eof(h)
  \/ \E h \in 1..MaxHandlers : handleREQ_return(h)
  \/ \E b \in PeerFrames : PeerSends(OtherAddr, b)
  \/ \E k \in 1..Len(c2s) : LoseC2S(k)

SpecStop == InitStop /\ [][NextStop]_vars /\ WF_vars(LoopSteps)

\* --- SpecFuzz: the server under datagrams of any kind from one peer
\* the first n bytes of the datagram b
Truncated(b, n) ==
  IF b.magic = "UC"
  THEN [b EXCEPT !.dlen = n, !.blen = IF n > ctrlHeaderSize THEN n - ctrlHeaderSize ELSE 0]
  ELSE [b EXCEPT !.dlen = n, !.payload = BSlice(b.payload, 0, n - dataHeaderSize)]

\* a NACK of 1100 sequences: 4408 bytes, more than the server's buffer
LongNack == packNACK([i \in 1..1100 |-> 0])

\* datagrams that are not a well-formed REQ, NACK or LIST
BadFrames ==
  { Truncated(packLIST, 0), Truncated(packLIST, 1), Truncated(packLIST, 4),
    Truncated(packREQ(<<"c">>), 6),
    [packREQ(<<"c">>) EXCEPT !.magic = "XX"],
    [packREQ(<<"c">>) EXCEPT !.ver = 2],
    [packLIST EXCEPT !.typ = 0],
    [packLIST EXCEPT !.typ = 9],
    [packNACK(<<0>>) EXCEPT !.plen = 1],
    [packNACK(<<0>>) EXCEPT !.val.count = 2],
    LongNack,
    DataPacket(DataHeader(0, 1, ChunkSize, CRC32(OneChunk)), OneChunk),
    packMETA(loadFile(<<"c">>).meta),
    packERR(ErrText(ErrNotFound)),
    packEOF,
    packLST(BaseDirNames) }

\* well-formed requests, among them frames with bytes after the payload
GoodFrames ==
  { packLIST, packREQ(<<"c">>), packREQ(<<"x">>), packNACK(<<0, 5>>),
    [packNACK(<<1>>) EXCEPT !.blen = 10, !.dlen = 16],
    [packLIST EXCEPT !.blen = 3, !.dlen = 9] }

InitFuzz ==
  /\ InitClient(Config(<<"e">>, 1, <<>>, 0, "any", FALSE, FALSE))
  /\ InitServer
  /\ InitNet

NextFuzz ==
  \/ \E b \in BadFrames \cup GoodFrames : PeerSends(ClientAddr, b)
  \/ packetLoop_read(1, 1)
  \/ dispatchCtrl(1)
  \/ \E h \in 1..MaxHandlers : handleREQ_load(h)
  \/ \E h \in 1..MaxHandlers : handleREQ_enter(h)
  \/ \E h \in 1..MaxHandlers : handleREQ_meta(h)
  \/ \E h \in 1..MaxHandlers : handleREQ_data(h)
  \/ \E h \in 1..MaxHandlers : handleREQ_eof(h)
  \/ \E h \in 1..MaxHandlers : handleREQ_return(h)
  \/ \E h \in 1..MaxHandlers : handleNACK_lookup(h)
  \/ \E h \in 1..MaxHandlers : handleNACK_resend(h)

SpecFuzz == InitFuzz /\ [][NextFuzz]_vars

\* --- SpecStray: a transfer of the 1025-byte file on a network that loses
\* datagrams and hands the client one datagram the server did not send, of
\* any kind and at any moment of the transfer
LastChunk == loadFile(<<"c">>).chunks[2]

\* the DATA frame of the last chunk (sequence 1, one byte)
LastData == DataPacket(DataHeader(1, 2, BLen(LastChunk), CRC32(LastChunk)), LastChunk)

\* the same header followed by one byte more than it declares
LongData ==
  [LastData EXCEPT !.payload = Norm(@ \o <<[b |-> 7, n |-> 1]>>), !.dlen = @ + 1]

\* the same header followed by no payload
ShortData == [LastData EXCEPT !.payload = <<>>, !.dlen = dataHeaderSize]

StrayData == {LongData, ShortData, [LastData EXCEPT !.magic = "XX"]}

StrayCtrl ==
  { packEOF, packNACK(<<0>>), packLIST, packLST(BaseDirNames), packREQ(<<"c">>),
    packMETA(loadFile(<<"b">>).meta), packERR(ErrText(ErrNotFound)),
    [packEOF EXCEPT !.ver = 2], [packEOF EXCEPT !.typ = 9],
    [packMETA(loadFile(<<"b">>).meta) EXCEPT !.plen = @ + 1] }

StrayS2C(b) ==
  /\ faults < MaxFaults
  /\ ~Closed
  /\ s2c' = Append(s2c, b)
  /\ faults' = faults + 1
  /\ hist' = [hist EXCEPT !.stray = Append(@, b)]
  /\ UNCHANGED c2s
  /\ UNCHANGED clientVars
  /\ UNCHANGED serverVars

InitStray ==
  /\ InitClient(Config(<<"c">>, 1, <<>>, 0, "any", FALSE, TRUE))
  /\ InitServer
  /\ InitNet

NextStray ==
  \/ \E h \in 1..MaxHandlers : handleREQ_load(h)
  \/ \E h \in 1..MaxHandlers : handleREQ_enter(h)
  \/ \E h \in 1..MaxHandlers : handleREQ_meta(h)
  \/ \E h \in 1..MaxHandlers : handleREQ_data(h)
  \/ \E h \in 1..MaxHandlers : handleREQ_eof(h)
  \/ \E h \in 1..MaxHandlers : handleREQ_return(h)
  \/ \E h \in 1..MaxHandlers : handleNACK_lookup(h)
  \/ \E h \in 1..MaxHandlers : handleNACK_resend(h)
  \/ packetLoop_read(1, 1)
  \/ dispatchCtrl(1)
  \/ sendREQ
  \/ metaPoll
  \/ metaTimeout
  \/ metaRead(1)
  \/ blastPoll
  \/ blastTimeout
  \/ blastRead(1)
  \/ nackRound
  \/ roundPoll
  \/ roundTimeout
  \/ roundRead(1)
  \/ assembleAndVerify
  \/ RunTransfer
  \/ IdleTick
  \/ IdleRoundTick
  \/ \E k \in 1..Len(s2c) : LoseS2C(k)
  \/ \E b \in StrayData \cup StrayCtrl : StrayS2C(b)

SpecStray == InitStray /\ [][NextStray]_vars

\* --- SpecRange: the same transfer, where the datagram the server did not
\* send may also be a well-formed DATA frame of another numbering: the last
\* chunk under the sequence that equals the Total of the transfer, and under
\* a sequence of a longer transfer
BeyondData == DataPacket(DataHeader(2, 2, BLen(LastChunk), CRC32(LastChunk)), LastChunk)

FarData == DataPacket(DataHeader(5, 9, BLen(LastChunk), CRC32(LastChunk)), LastChunk)

RangeData == {BeyondData, FarData}

NextRange ==
  \/ NextStray
  \/ \E b \in RangeData : StrayS2C(b)

SpecRange == InitStray /\ [][NextRange]_vars

\* --- SpecSize: the control frames of a client, up to the sizes a transfer
\* of a large file produces, arrive at the server's 4096-byte buffer.

\* the longest NACK list whose frame fits the server's buffer
NackFit == (ServerBufSize - ctrlHeaderSize - 2) \div 4

\* the totals of the files whose chunks are all missing when the NACK is
\* written: small ones, and the two either side of the buffer's limit
NackTotals == {1, 2, NackFit, NackFit + 1}

\* what runNackRounds writes when nothing of a file of `total` chunks has
\* arrived: CtrlNACK(missing), computeMissing having listed 0 .. total-1
NackOfNone(total) == packNACK([i \in 1..total |-> i - 1])

\* the control frames a client writes: REQ, LIST and NACK
SizeFrames ==
  {packREQ(<<"c">>), packREQ(<<"x">>), packLIST}
    \cup {NackOfNone(t) : t \in NackTotals}

\* the client writes the control frame b
ClientWrites(b) ==
  /\ hist.sentByPeer < MaxDatagrams
  /\ c2s' = Append(c2s, Datagram(ClientAddr, b))
  /\ hist' = [hist EXCEPT !.sentByPeer = @ + 1]
  /\ UNCHANGED <<s2c, faults>>
  /\ UNCHANGED clientVars
  /\ UNCHANGED serverVars

InitSize ==
  /\ InitClient(Config(<<"c">>, 1, <<>>, 0, "any", FALSE, FALSE))
  /\ InitServer
  /\ InitNet

NextSize ==
  \/ \E b \in SizeFrames : ClientWrites(b)
  \/ packetLoop_read(1, 1)
  \/ dispatchCtrl(1)
  \/ \E h \in 1..MaxHandlers : handleREQ_load(h)
  \/ \E h \in 1..MaxHandlers : handleREQ_enter(h)
  \/ \E h \in 1..MaxHandlers : handleREQ_meta(h)
  \/ \E h \in 1..MaxHandlers : handleREQ_data(h)
  \/ \E h \in 1..MaxHandlers : handleREQ_eof(h)
  \/ \E h \in 1..MaxHandlers : handleREQ_return(h)
  \/ \E h \in 1..MaxHandlers : handleNACK_lookup(h)
  \/ \E h \in 1..MaxHandlers : handleNACK_resend(h)

SpecSize == InitSize /\ [][NextSize]_vars

\* --- SpecHex: parseHexSha on strings of characters.  A character is its
\* byte value; a digest is a sequence of ShaLen bytes.

ShaLen == 32

HexLen == 2 * ShaLen

\* make([]byte, 32)
ZeroBytes == [i \in 1..ShaLen |-> 0]

\* hexval: the value of a hex digit and whether r is one
hexval(r) ==
  IF r >= 48 /\ r <= 57 THEN [v |-> r - 48, ok |-> TRUE]
  ELSE IF r >= 97 /\ r <= 102 THEN [v |-> r - 97 + 10, ok |-> TRUE]
  ELSE IF r >= 65 /\ r <= 70 THEN [v |-> r - 65 + 10, ok |-> TRUE]
  ELSE [v |-> 0, ok |-> FALSE]

\* ok1 && ok2 for the pair s[i*2], s[i*2+1] (i from 0)
pairOk(s, i) == hexval(s[2 * i + 1]).ok /\ hexval(s[2 * i + 2]).ok

\* the iteration at which the loop of parseHexSha returns: the first pair
\* with a character that is no hex digit, or ShaLen when there is none
loopStops(s) ==
  IF \E i \in 0..(ShaLen - 1) : ~pairOk(s, i)
  THEN CHOOSE i \in 0..(ShaLen - 1) :
         ~pairOk(s, i) /\ \A j \in 0..(i - 1) : pairOk(s, j)
  ELSE ShaLen

\* parseHexSha: b is 32 zero bytes; a string of another length than 64
\* returns b; the loop writes b[i] = (hi << 4) | lo pair by pair and
\* returns b, as far as written, at the first pair that is not hex
parseHexSha64(s) ==
  IF Len(s) # HexLen THEN ZeroBytes
  ELSE [i \in 1..ShaLen |->
          IF i - 1 < loopStops(s)
          THEN (hexval(s[2 * i - 1]).v * 16 + hexval(s[2 * i]).v) % 256
          ELSE 0]

\* "0123456789abcdef" and "0123456789ABCDEF"
LowerDigits == [i \in 1..16 |-> IF i <= 10 THEN 47 + i ELSE 86 + i]

UpperDigits == [i \in 1..16 |-> IF i <= 10 THEN 47 + i ELSE 54 + i]

\* strings of 64 hex digits: all '0', the sixteen digits four times over in
\* lower and in upper case, and "aB" 32 times
HexGood ==
  { [i \in 1..HexLen |-> 48],
    [i \in 1..HexLen |-> LowerDigits[((i - 1) % 16) + 1]],
    [i \in 1..HexLen |-> UpperDigits[((i - 1) % 16) + 1]],
    [i \in 1..HexLen |-> IF i % 2 = 1 THEN 97 ELSE 66] }

\* the characters next to the three ranges of hex digits: / : @ G ` g
NonHexChars == {47, 58, 64, 71, 96, 103}

\* one character of a good string replaced by one that is no hex digit
HexOneBad == {[g EXCEPT ![p] = c] : g \in HexGood, p \in 1..HexLen, c \in NonHexChars}

\* good strings cut short or made longer
HexWrongLen ==
  {SubSeq(g, 1, n) : g \in HexGood, n \in {0, 1, 2, HexLen - 1}}
    \cup {g \o tail : g \in HexGood, tail \in {<<48>>, <<48, 48>>}}

HexStrings == HexGood \cup HexOneBad \cup HexWrongLen

\* parseHexSha(s)
parseHexShaCall(s) ==
  /\ hist.codec = <<>>
  /\ hist' = [hist EXCEPT !.codec = <<[op |-> "parseHexSha", in |-> s,
                                       out |-> parseHexSha64(s)]>>]
  /\ UNCHANGED <<c2s, s2c, faults>>
  /\ UNCHANGED clientVars
  /\ UNCHANGED serverVars

InitHex ==
  /\ InitClient(Config(<<"c">>, 1, <<>>, 0, "any", FALSE, FALSE))
  /\ InitServer
  /\ InitNet

NextHex == \E s \in HexStrings : parseHexShaCall(s)

SpecHex == InitHex /\ [][NextHex]_vars

\* --- SpecE2E: a transfer of an unchanging file over a network that loses,
\* duplicates and reorders datagrams; the deadline of the wait for META
\* passes at any time, so a REQ is resent while the first blast is still
\* on its way.
E2EConfigs == {Config(<<"c">>, 2, <<>>, 0, "any", FALSE, TRUE)}

InitE2E == (\E c \in E2EConfigs : InitClient(c)) /\ InitServer /\ InitNet

\* the deadline of sendREQAndGetMeta passes, whatever is on its way
MetaTick == cl.pc = "p1_read" /\ Tick

NextE2E ==
  \/ \E h \in 1..MaxHandlers : handleREQ_load(h)
  \/ \E h \in 1..MaxHandlers : handleREQ_enter(h)
  \/ \E h \in 1..MaxHandlers : handleREQ_meta(h)
  \/ \E h \in 1..MaxHandlers : handleREQ_data(h)
  \/ \E h \in 1..MaxHandlers : handleREQ_eof(h)
  \/ \E h \in 1..MaxHandlers : handleREQ_return(h)
  \/ \E h \in 1..MaxHandlers : handleNACK_lookup(h)
  \/ \E h \in 1..MaxHandlers : handleNACK_resend(h)
  \/ packetLoop_read(1, 1)
  \/ dispatchCtrl(1)
  \/ sendREQ
  \/ metaPoll
  \/ metaTimeout
  \/ metaRead(1)
  \/ blastPoll
  \/ blastTimeout
  \/ \E k \in 1..ReorderWindow : blastRead(k)
  \/ nackRound
  \/ roundPoll
  \/ roundTimeout
  \/ roundRead(1)
  \/ assembleAndVerify
  \/ RunTransfer
  \/ MetaTick
  \/ IdleTick
  \/ IdleRoundTick
  \/ LoseS2C(1)
  \/ \E k \in 1..Len(s2c) : DupS2C(k)

SpecE2E == InitE2E /\ [][NextE2E]_vars

\* --- SpecLive: a network that loses the datagram that is next to
\* arrive, and a client that runs: its goroutine is scheduled and
\* its clock advances.
LiveConfigs ==
  {Config(<<"b">>, 1, <<>>, 0, "any", hc, TRUE) : hc \in BOOLEAN}
  \cup {Config(<<"b">>, 2, <<>>, 0, "any", FALSE, TRUE),
        Config(<<"x">>, 2, <<>>, 0, "any", FALSE, TRUE),
        Config(<<"e">>, 1, <<>>, 0, "any", FALSE, TRUE)}

InitLive == (\E c \in LiveConfigs : InitClient(c)) /\ InitServer /\ InitNet

\* the steps of RunTransfer that wait for nothing but the scheduler
ClientStep ==
  \/ sendREQ
  \/ metaPoll
  \/ metaTimeout
  \/ blastPoll
  \/ blastTimeout
  \/ nackRound
  \/ roundPoll
  \/ roundTimeout
  \/ assembleAndVerify
  \/ RunTransfer

NextLive ==
  \/ \E h \in 1..MaxHandlers : handleREQ_load(h)
  \/ \E h \in 1..MaxHandlers : handleREQ_enter(h)
  \/ \E h \in 1..MaxHandlers : handleREQ_meta(h)
  \/ \E h \in 1..MaxHandlers : handleREQ_data(h)
  \/ \E h \in 1..MaxHandlers : handleREQ_eof(h)
  \/ \E h \in 1..MaxHandlers : handleREQ_return(h)
  \/ \E h \in 1..MaxHandlers : handleNACK_lookup(h)
  \/ \E h \in 1..MaxHandlers : handleNACK_resend(h)
  \/ packetLoop_read(1, 1)
  \/ dispatchCtrl(1)
  \/ ClientStep
  \/ metaRead(1)
  \/ blastRead(1)
  \/ roundRead(1)
  \/ Tick
  \/ RoundTick
  \/ Cancel
  \/ LoseC2S(1)
  \/ LoseS2C(1)

\* a finite Timeout: every deadline that is set passes; the client's
\* goroutine takes its next step when it is not blocked in a read
SpecLive ==
  /\ InitLive /\ [][NextLive]_vars
  /\ WF_vars(ClientStep) /\ WF_vars(Tick) /\ WF_vars(RoundTick)

\* --- SpecFail: the server and one peer that sends up to three control
\* frames: REQs for a file, for a missing file, for a path outside the
\* base directory and for a directory, and a NACK.
FailFrames ==
  {packREQ(<<"c">>), packREQ(<<"x">>), packREQ(<<".", ".">>),
   packREQ(<<"a", "a">>), packNACK(<<0>>)}

PeerAsks(b) ==
  /\ hist.sentByPeer < MaxDatagrams + 1
  /\ c2s' = Append(c2s, Datagram(ClientAddr, b))
  /\ hist' = [hist EXCEPT !.sentByPeer = @ + 1]
  /\ UNCHANGED <<s2c, faults>>
  /\ UNCHANGED clientVars
  /\ UNCHANGED serverVars

InitFail ==
  /\ InitClient(Config(<<"c">>, 1, <<>>, 0, "any", FALSE, FALSE))
  /\ InitServer
  /\ InitNet

NextFail ==
  \/ \E b \in FailFrames : PeerAsks(b)
  \/ packetLoop_read(1, 1)
  \/ dispatchCtrl(1)
  \/ \E h \in 1..MaxHandlers : handleREQ_load(h)
  \/ \E h \in 1..MaxHandlers : handleREQ_enter(h)
  \/ \E h \in 1..MaxHandlers : handleREQ_meta(h)
  \/ \E h \in 1..MaxHandlers : handleREQ_data(h)
  \/ \E h \in 1..MaxHandlers : handleREQ_eof(h)
  \/ \E h \in 1..MaxHandlers : handleREQ_return(h)
  \/ \E h \in 1..MaxHandlers : handleNACK_lookup(h)
  \/ \E h \in 1..MaxHandlers : handleNACK_resend(h)

SpecFail == InitFail /\ [][NextFail]_vars

\* --- SpecConc: two peers send REQ and NACK datagrams; the handlers run
\* concurrently with the loop and with each other
ConcFrames == {packREQ(<<"a">>), packREQ(<<"b">>), packNACK(<<0>>)}

InitConc ==
  /\ InitClient(Config(<<"e">>, 1, <<>>, 0, "any", FALSE, FALSE))
  /\ InitServer
  /\ InitNet

NextConc ==
  \/ \E addr \in Peers, b \in ConcFrames : PeerSends(addr, b)
  \/ packetLoop_read(1, 1)
  \/ dispatchCtrl(1)
  \/ \E h \in 1..MaxHandlers : handleREQ_load(h)
  \/ \E h \in 1..MaxHandlers : handleREQ_enter(h)
  \/ \E h \in 1..MaxHandlers : handleREQ_meta(h)
  \/ \E h \in 1..MaxHandlers : handleREQ_data(h)
  \/ \E h \in 1..MaxHandlers : handleREQ_eof(h)
  \/ \E h \in 1..MaxHandlers : handleREQ_return(h)
  \/ \E h \in 1..MaxHandlers : handleNACK_lookup(h)
  \/ \E h \in 1..MaxHandlers : handleNACK_resend(h)

SpecConc == InitConc /\ [][NextConc]_vars

\* --- SpecCount: the same two peers and handlers, and Stop called at any
\* moment: the handlers that are running go on with the socket closed
NextCount ==
  \/ NextConc
  \/ Stop
  \/ packetLoop_readErr(1)
  \/ packetLoop_exit(1)

SpecCount == InitConc /\ [][NextCount]_vars

\* --- SpecMetrics: peers send REQ and NACK datagrams, the handlers run
\* concurrently, and the metrics are read by Snapshot, one call after the
\* other, each call loading the counters one by one
MetricNames == <<"BytesSent", "SegmentsSent", "NacksReceived", "Retransmissions",
                 "ActiveClients">>

\* Snapshot: the next atomic load of the call; after the last load the
\* call returns the copy
Snapshot_load ==
  /\ Len(hist.snap.done) < MaxSnapshots
  /\ LET k == hist.snap.pc + 1
         cur == [hist.snap.cur EXCEPT ![MetricNames[k]] = mtr[MetricNames[k]]]
     IN hist' = [hist EXCEPT !.snap =
                   IF k < Len(MetricNames)
                   THEN [pc |-> k, cur |-> cur, done |-> hist.snap.done]
                   ELSE [pc |-> 0, cur |-> NoMetrics, done |-> Append(hist.snap.done, cur)]]
  /\ UNCHANGED <<c2s, s2c, faults>>
  /\ UNCHANGED clientVars
  /\ UNCHANGED serverVars

InitMetrics ==
  /\ InitClient(Config(<<"e">>, 1, <<>>, 0, "any", FALSE, FALSE))
  /\ InitServer
  /\ InitNet

NextMetrics ==
  \/ \E path \in {<<"c">>, <<"x">>} : PeerSendsREQ(path)
  \/ \E addr \in Peers, missing \in {<<0>>, <<1, 3>>} : PeerSendsNACK(addr, missing)
  \/ packetLoop_read(1, 1)
  \/ dispatchCtrl(1)
  \/ \E h \in 1..MaxHandlers : handleREQ_load(h)
  \/ \E h \in 1..MaxHandlers : handleREQ_enter(h)
  \/ \E h \in 1..MaxHandlers : handleREQ_meta(h)
  \/ \E h \in 1..MaxHandlers : handleREQ_data(h)
  \/ \E h \in 1..MaxHandlers : handleREQ_eof(h)
  \/ \E h \in 1..MaxHandlers : handleREQ_return(h)
  \/ \E h \in 1..MaxHandlers : handleNACK_lookup(h)
  \/ \E h \in 1..MaxHandlers : handleNACK_resend(h)
  \/ Snapshot_load

SpecMetrics == InitMetrics /\ [][NextMetrics]_vars

\* --- SpecOut: the cooperative network, output paths of every kind: none,
\* a file name, an existing directory, a file in that directory
OutConfigs ==
  {Config(p, 1, o, 0, "any", FALSE, TRUE) :
     p \in {<<"e">>, <<"b">>, <<"c">>, <<"a", "a", "/", "a">>},
     o \in {<<>>, <<"o">>, <<"D">>, <<"D", "/", "o">>}}

InitOut == (\E c \in OutConfigs : InitClient(c)) /\ InitServer /\ InitNet

SpecOut == InitOut /\ [][NextCoop]_vars

\* --- SpecCodec: the codec under buffers of any kind, a server and a client
\* in its initial reception that are handed frames of any kind
Headers ==
  {DataHeader(sq, t, sz, c) :
     sq \in {0, 1, 70000}, t \in {1, 70001}, sz \in {0, 1024, 65535},
     c \in {0, 65520, 1677721600}}

\* buffers handed to UnpackHeader: packed headers, cut short, followed by a
\* payload byte, with another magic or version
HeaderBufs ==
  UNION {LET bs == PackHeader(h) IN
         {bs, bs \o <<7>>, SubSeq(bs, 1, 17), SubSeq(bs, 1, 2), <<>>,
          [bs EXCEPT ![1] = 0], [bs EXCEPT ![2] = 67],
          [bs EXCEPT ![3] = 0], [bs EXCEPT ![3] = 2]} : h \in Headers}

\* the control frames the two programs send
CtrlFrames ==
  {packREQ(path) : path \in {<<>>, <<"c">>, <<"a", "a", "/", "a">>}}
  \cup {packMETA(loadFile(path).meta) : path \in DOMAIN RegularFiles}
  \cup {packERR(ErrText(ErrInvalidPath)), packERR(ErrText(ErrNotFound))}
  \cup {packEOF, packLIST}
  \cup {packNACK(missing) : missing \in {<<>>, <<0>>, <<0, 5>>, <<3, 2, 1>>}}
  \cup {packLST(names) : names \in {<<>>, BaseDirNames}}

\* buffers handed to DecodeCtrl: the frames, cut short, followed by another
\* byte, with another magic, version or type
CtrlBufs ==
  UNION {{b, Truncated(b, b.dlen - 1), Truncated(b, 5), Truncated(b, 0),
          [b EXCEPT !.blen = @ + 1, !.dlen = @ + 1],
          [b EXCEPT !.magic = "UD"], [b EXCEPT !.magic = "XX"],
          [b EXCEPT !.ver = 0], [b EXCEPT !.ver = 2],
          [b EXCEPT !.typ = 0], [b EXCEPT !.typ = 9]} : b \in CtrlFrames}

\* one call of UnpackHeader; the call is added to the observation
UnpackHeaderCall(bs) ==
  /\ hist.codec = <<>> /\ hist.sentByPeer = 0
  /\ hist' = [hist EXCEPT !.codec = <<[op |-> "UnpackHeader", in |-> bs,
                                       out |-> UnpackHeader(bs)]>>]
  /\ UNCHANGED <<c2s, s2c, faults>>
  /\ UNCHANGED clientVars
  /\ UNCHANGED serverVars

\* one call of DecodeCtrl
DecodeCtrlCall(b) ==
  /\ hist.codec = <<>> /\ hist.sentByPeer = 0
  /\ hist' = [hist EXCEPT !.codec = <<[op |-> "DecodeCtrl", in |-> b,
                                       out |-> DecodeCtrl(b)]>>]
  /\ UNCHANGED <<c2s, s2c, faults>>
  /\ UNCHANGED clientVars
  /\ UNCHANGED serverVars

\* PackHeader and then UnpackHeader
HeaderRoundTrip(h) ==
  /\ hist.codec = <<>> /\ hist.sentByPeer = 0
  /\ hist' = [hist EXCEPT !.codec = <<[op |-> "HeaderRoundTrip", in |-> h,
                                       packed |-> PackHeader(h),
                                       out |-> UnpackHeader(PackHeader(h))]>>]
  /\ UNCHANGED <<c2s, s2c, faults>>
  /\ UNCHANGED clientVars
  /\ UNCHANGED serverVars

\* the control messages the two programs exchange, as type and fields
CtrlValues ==
  {[typ |-> "REQ", val |-> [Path |-> path]] :
     path \in {<<>>, <<"c">>, <<"a", "a", "/", "a">>}}
  \cup {[typ |-> "META", val |-> loadFile(path).meta] : path \in DOMAIN RegularFiles}
  \cup {[typ |-> "META",
         val |-> [loadFile(<<"a">>).meta EXCEPT !.Total = 70000, !.Size = 71680000]]}
  \cup {[typ |-> "ERR", val |-> [Message |-> text]] : text \in {ErrInvalidPath, ErrNotFound}}
  \cup {[typ |-> "EOF", val |-> [none |-> TRUE]], [typ |-> "LIST", val |-> [none |-> TRUE]]}
  \cup {[typ |-> "NACK", val |-> [Missing |-> missing]] :
          missing \in {<<>>, <<0>>, <<0, 5>>, <<3, 2, 1>>, <<70000>>}}
  \cup {[typ |-> "LST", val |-> [Names |-> names]] : names \in {<<>>, BaseDirNames}}

\* Ctrl*: the frame of a control message
CtrlEncode(v) ==
  CASE v.typ = "REQ"  -> packREQ(v.val.Path)
    [] v.typ = "META" -> packMETA(v.val)
    [] v.typ = "ERR"  -> packERR(ErrText(v.val.Message))
    [] v.typ = "EOF"  -> packEOF
    [] v.typ = "NACK" -> packNACK(v.val.Missing)
    [] v.typ = "LIST" -> packLIST
    [] v.typ = "LST"  -> packLST(v.val.Names)

\* Ctrl* and then DecodeCtrl
CtrlRoundTrip(v) ==
  /\ hist.codec = <<>> /\ hist.sentByPeer = 0
  /\ hist' = [hist EXCEPT !.codec = <<[op |-> "CtrlRoundTrip", in |-> v,
                                       packed |-> CtrlEncode(v),
                                       out |-> DecodeCtrl(CtrlEncode(v))]>>]
  /\ UNCHANGED <<c2s, s2c, faults>>
  /\ UNCHANGED clientVars
  /\ UNCHANGED serverVars

\* chunk 0 of the file the client is receiving, as the server sends it
FirstData ==
  LET chunks == loadFile(<<"a">>).chunks IN
  DataPacket(DataHeader(0, Len(chunks), BLen(chunks[1]), CRC32(chunks[1])), chunks[1])

\* frames that reach the client: the DATA frame, whole and damaged, and
\* damaged EOF frames
ClientFrames ==
  { FirstData, [FirstData EXCEPT !.ver = 2], [FirstData EXCEPT !.magic = "XX"],
    Truncated(FirstData, 17), Truncated(FirstData, 2), Truncated(FirstData, 0),
    [packEOF EXCEPT !.ver = 2], [packEOF EXCEPT !.magic = "XX"],
    [packEOF EXCEPT !.plen = 4], Truncated(packEOF, 5) }

\* a datagram reaches the client's socket
ArrivesAtClient(b) ==
  /\ hist.codec = <<>>
  /\ hist.sentByPeer < MaxDatagrams
  /\ ~Closed
  /\ s2c' = Append(s2c, b)
  /\ hist' = [hist EXCEPT !.sentByPeer = @ + 1]
  /\ UNCHANGED <<c2s, faults>>
  /\ UNCHANGED clientVars
  /\ UNCHANGED serverVars

\* the client after META of the three-chunk file, at the head of its
\* initial reception
InitCodec ==
  /\ cfg = Config(<<"a">>, 1, <<>>, 0, "any", FALSE, TRUE)
  /\ cl = [pc |-> "p2_poll", try |-> 1, attempts |-> 1,
           meta |-> loadFile(<<"a">>).meta, eof |-> FALSE, idleCount |-> 0,
           maxRounds |-> 1, rounds |-> 0, out |-> <<>>, ok |-> FALSE,
           err |-> "", msg |-> ""]
  /\ recv = <<>>
  /\ ctr = [bytes |-> 0, segs |-> 0]
  /\ drop = NoPolicy
  /\ timer = [expired |-> FALSE, roundOver |-> FALSE]
  /\ cancel = FALSE
  /\ files = <<>>
  /\ calls = <<[cb |-> "OnMeta"]>>
  /\ InitServer
  /\ InitNet

NextCodec ==
  \/ \E bs \in HeaderBufs : UnpackHeaderCall(bs)
  \/ \E b \in CtrlBufs : DecodeCtrlCall(b)
  \/ \E h \in Headers : HeaderRoundTrip(h)
  \/ \E v \in CtrlValues : CtrlRoundTrip(v)
  \/ \E b \in ClientFrames : ArrivesAtClient(b)
  \/ \E b \in BadFrames : hist.codec = <<>> /\ PeerSends(ClientAddr, b)
  \/ packetLoop_read(1, 1)
  \/ dispatchCtrl(1)
  \/ blastPoll
  \/ blastRead(1)

SpecCodec == InitCodec /\ [][NextCodec]_vars

\* ------------------------------------------------------------------------
\* Properties
\* ------------------------------------------------------------------------
\* transferOnce has returned
Ended == cl.pc \in {"ret", "done"}

\* RunTransfer has called OnDone
Reported == cl.pc = "done"

\* META was received
MetaReceived == \E i \in 1..Len(calls) : calls[i].cb = "OnMeta"

\* the sequences of [0, Total) that are absent from the receive map
Absent == {q \in 0..(cl.meta.Total - 1) : q \notin DOMAIN recv}

\* the received chunks in the order of their sequences, gaps left empty
InOrder ==
  [i \in 1..cl.meta.Total |-> IF i - 1 \in DOMAIN recv THEN recv[i - 1] ELSE <<>>]

\* the path the output belongs at, from the configuration alone
ExpectedPath ==
  IF cfg.OutputPath = <<>> THEN <<"r", "e", "c", "v", "_">> \o Base(cfg.Path)
  ELSE cfg.OutputPath

ExpectedCorruptPath == ExpectedPath \o <<".", "c", "o", "r", "r", "u", "p", "t">>

LastCall == calls[Len(calls)]

\* C1 (lossless transfer): with no drop policy and every frame delivered
\* once and in order, the transfer of a file of N >= 0 chunks (the empty
\* file included) never waits for a datagram that is not coming and never
\* asks for a retransmission, and it ends with every sequence of [0, N)
\* stored, the file's bytes written to the resolved path and nowhere else,
\* the computed SHA-256 equal to META's, and OnDone reporting that path with
\* ok = true.
C1_Complete ==
  LET src == RegularFiles[cfg.Path]
      n == (BLen(src) + ChunkSize - 1) \div ChunkSize
  IN /\ cl.err = "none"
     /\ cl.meta.Total = n
     /\ DOMAIN recv = 0..(n - 1)
     /\ DOMAIN files = {ExpectedPath}
     /\ files[ExpectedPath] = Norm(src)
     /\ SHA256FileChunks(InOrder) = cl.meta.SHA256
     /\ cl.out = ExpectedPath /\ cl.ok

C1_LosslessTransfer ==
  /\ hist.nacks = <<>>
  /\ ~(Reading /\ Quiescent)
  /\ cl.pc \notin {"p3_loop", "p3_read", "panic"}
  /\ Ended => C1_Complete
  /\ Reported => LastCall = [cb |-> "OnDone", out |-> ExpectedPath, ok |-> TRUE]

\* the empty file has been transferred: a 0-byte output, integrity ok
C1_Witness ==
  /\ Reported
  /\ C1_Complete
  /\ cfg.Path = <<"e">>
  /\ files[ExpectedPath] = <<>>
  /\ LastCall = [cb |-> "OnDone", out |-> ExpectedPath, ok |-> TRUE]

\* the sequences the policy dropped in the initial reception
DroppedInBlast ==
  {hist.dropTrue[i].seq : i \in {j \in 1..Len(hist.dropTrue) :
                                   hist.dropTrue[j].phase = "p2_read"}}

\* the sequences the k-th NACK lists
Listed(k) == {hist.nacks[k].listed[j] : j \in 1..Len(hist.nacks[k].listed)}

\* C2 (lossy transfer convergence): with a single-shot drop policy of rate
\* r < 1, Retries >= 2 and an otherwise cooperative network, a transfer
\* that ends has integrity ok and has sent at most two NACKs; every
\* sequence dropped in the initial reception is listed in the first NACK,
\* and no retransmission is dropped.
C2_LossyConvergence ==
  /\ Len(hist.nacks) <= 2
  /\ Ended => (cl.ok /\ cl.err = "none" /\ Absent = {})
  /\ \A i \in 1..Len(hist.dropTrue) : hist.dropTrue[i].phase = "p2_read"
  /\ Len(hist.nacks) >= 1 => DroppedInBlast \subseteq Listed(1)

\* the first NACK of a transfer whose 21 chunks were all dropped omits one
C2_Omitted ==
  /\ Len(hist.nacks) >= 1
  /\ Cardinality(DroppedInBlast) = 21
  /\ 10 \notin Listed(1)

\* C3 (single-shot drop): over any sequence of ShouldDrop calls, for one
\* sequence and for others in any order, ShouldDrop(s) returns true at most
\* once for each s; a call for a sequence already in the dropped set
\* returns false, every sequence answered with true is in the dropped set,
\* and a nil policy always returns false.
C3_SingleShot ==
  LET h == hist.shouldDrop IN
  /\ \A i, j \in 1..Len(h) : (i < j /\ h[i].seq = h[j].seq /\ h[i].res) => ~h[j].res
  /\ \A i \in 1..Len(h) : h[i].already => ~h[i].res
  /\ \A i \in 1..Len(h) : h[i].res => h[i].seq \in drop.dropped
  /\ drop.nil => \A i \in 1..Len(h) : ~h[i].res

\* a sequence was dropped, and a later call for it returned false although
\* the generator only returns samples below the rate
C3_Witness ==
  LET h == hist.shouldDrop IN
  /\ ~drop.nil /\ drop.stream = "low"
  /\ \E i, j \in 1..Len(h) : /\ i < j
                             /\ h[i].seq = h[j].seq
                             /\ h[i].res /\ ~h[j].res /\ h[j].already
  /\ \E i \in 1..Len(h) : h[i].seq # h[1].seq

RECURSIVE SumLen(_, _)
SumLen(f, S) ==
  IF S = {} THEN 0
  ELSE LET q == CHOOSE x \in S : TRUE IN BLen(f[q]) + SumLen(f, S \ {q})

\* every stored payload came from a DATA frame of its sequence whose CRC32
\* field is the CRC32 of the payload, and each store was of an absent
\* sequence: the counters count the entries of the map
C4_StoredFromValid ==
  /\ \A q \in DOMAIN recv :
       /\ q \in DOMAIN hist.storedFrom
       /\ LET f == hist.storedFrom[q] IN
          /\ f.magic = "UD" /\ f.seq = q
          /\ recv[q] = BSlice(f.payload, 0, f.size)
          /\ BLen(recv[q]) = f.size
          /\ f.crc = ByteSum(recv[q]) % 65521
  /\ ctr.segs = Cardinality(DOMAIN recv)
  /\ ctr.bytes = SumLen(recv, DOMAIN recv)

\* a step leaves every stored payload, and the frame it came from, as it is
C4_Kept ==
  \A q \in DOMAIN recv :
    /\ q \in DOMAIN recv' /\ recv'[q] = recv[q]
    /\ hist'.storedFrom[q] = hist.storedFrom[q]

\* C4 (client receive-state invariant): in every reachable state each
\* payload in the receive map was stored from a DATA frame whose CRC32 field
\* equals the CRC32 of that payload, stored only when its sequence was
\* absent; no later frame (duplicate, corrupted frame, retransmission)
\* overwrites or removes a stored payload.
C4_ReceiveState == [](C4_StoredFromValid) /\ [][C4_Kept]_vars

\* a corrupted frame of a sequence was refused, and the sequence is stored
\* from another frame of it
C4_Witness ==
  /\ hist.corrupted # {}
  /\ \E r \in hist.refused : r.why = "crc" /\ r.seq \in DOMAIN recv

\* C5 as stated (incomplete transfer writes nothing): whenever a transfer
\* ends with at least one sequence of [0, Total) absent from the receive
\* map, it fails with IncompleteTransfer and no file is created.
C5_AsStated ==
  (Ended /\ Absent # {}) => (cl.err = "IncompleteTransfer" /\ files = <<>>)

\* C5, amended: whenever a transfer ends with at least one sequence of
\* [0, Total) absent from the receive map, it fails (with IncompleteTransfer
\* when the NACK rounds are used up, with NoDataReceived when the initial
\* reception idles out with nothing stored, with Canceled when a poll finds
\* the cancel signal closed), it reports no path, and no file is created or
\* modified, neither the resolved path nor <resolved>.corrupt.
C5_IncompleteWritesNothing ==
  /\ (Ended /\ Absent # {}) =>
       /\ cl.err \in {"IncompleteTransfer", "NoDataReceived", "Canceled"}
       /\ files = <<>>
       /\ ~cl.ok /\ cl.out = <<>>
  /\ cl.err = "IncompleteTransfer" =>
       (Absent # {} /\ Len(hist.nacks) = cl.maxRounds /\ files = <<>>)
  /\ cl.err = "NoDataReceived" => (recv = <<>> /\ files = <<>>)

\* the NACK rounds are used up with a part of the file stored
C5_Witness ==
  /\ Reported
  /\ cl.err = "IncompleteTransfer"
  /\ Absent # {} /\ recv # <<>>
  /\ files = <<>>

\* C6 (SHA mismatch handling): when all Total chunks are present and the
\* SHA-256 of their ordered concatenation differs from META's, the transfer
\* returns with the reassembled bytes written to <resolved>.corrupt and to
\* no other path, fails with IntegrityMismatch, and OnDone reports that
\* path with ok = false; the resolved path is written, and ok is true,
\* only when the hashes are equal.
C6_ShaMismatch ==
  LET computed == SHA256FileChunks(InOrder) IN
  /\ (Ended /\ MetaReceived /\ Absent = {} /\ computed # cl.meta.SHA256) =>
       /\ DOMAIN files = {ExpectedCorruptPath}
       /\ files[ExpectedCorruptPath] = Norm(ConcatAll(InOrder))
       /\ cl.err = "IntegrityMismatch"
       /\ ~cl.ok /\ cl.out = ExpectedCorruptPath
       /\ Reported => LastCall = [cb |-> "OnDone", out |-> ExpectedCorruptPath,
                                  ok |-> FALSE]
  /\ (ExpectedPath \in DOMAIN files \/ cl.ok) =>
       /\ Ended /\ Absent = {} /\ computed = cl.meta.SHA256
       /\ cl.ok /\ cl.out = ExpectedPath
       /\ DOMAIN files = {ExpectedPath}
       /\ files[ExpectedPath] = Norm(ConcatAll(InOrder))

\* a complete transfer whose content is not the announced one
C6_Witness ==
  /\ Reported
  /\ cl.err = "IntegrityMismatch"
  /\ Absent = {} /\ cl.meta.Total > 0
  /\ DOMAIN files = {ExpectedCorruptPath}
  /\ LastCall = [cb |-> "OnDone", out |-> ExpectedCorruptPath, ok |-> FALSE]

\* C7 as stated (cancellation): if the cancel signal is closed at any point
\* before the transfer has returned, the transfer fails with Canceled and no
\* output file is written.
C7_AsStated ==
  (Ended /\ cancel) => (cl.err = "Canceled" /\ files = <<>>)

\* the client is at a cancel poll: the head of the wait for META, of an
\* iteration of the initial reception, of a NACK round, of an iteration
\* inside a round
AtPoll ==
  \/ cl.pc = "p1_poll"
  \/ cl.pc = "p2_poll" /\ ~cl.eof
  \/ cl.pc = "p3_top"
  \/ cl.pc = "p3_loop" /\ ~timer.roundOver

\* C7, amended: whenever the client reaches a cancel poll (Phases 1 to 3)
\* with the cancel signal closed, the transfer returns Canceled there, and a
\* transfer that fails with Canceled writes no file and reports no path; a
\* signal closed after the last poll is not observed.
C7_Cancellation ==
  /\ [](cl.err = "Canceled" =>
          (Ended /\ cancel /\ files = <<>> /\ ~cl.ok /\ cl.out = <<>>))
  /\ [][(cancel /\ AtPoll /\ cl' # cl) =>
          (cl'.pc = "ret" /\ cl'.err = "Canceled" /\ files' = <<>>)]_vars

\* cancel was observed inside a NACK round, with a part of the file stored
C7_Witness ==
  /\ Reported
  /\ cl.err = "Canceled"
  /\ Len(hist.nacks) >= 1 /\ recv # <<>>
  /\ LastCall = [cb |-> "OnDone", out |-> <<>>, ok |-> FALSE]

\* the cleaned path is ".", is "..", or starts with ".."
Escapes(path) ==
  LET c == Clean(path) IN
  \/ c = <<".">>
  \/ c = <<".", ".">>
  \/ (Len(c) >= 2 /\ c[1] = "." /\ c[2] = ".")

InvalidPathReply == packERR(ErrText(ErrInvalidPath))

\* C8 (path sanitisation): for every REQ whose cleaned path is ".", is ".."
\* or starts with "..", the handler writes exactly one frame, the ERR
\* "caminho invalido", and nothing else (no META, DATA or EOF), never calls
\* loadFile, registers no session for the peer and counts nothing.
C8_PathSanitisation ==
  /\ \A h \in 1..Len(handlers) :
       (handlers[h].kind = "REQ" /\ Escapes(handlers[h].path)) =>
         /\ handlers[h].pc = "start"
         /\ handlers[h].sent = <<>> /\ ~handlers[h].loaded
         /\ ~active[handlers[h].addr].present
  /\ \A r \in hist.served :
       (r.kind = "REQ" /\ Escapes(r.path)) =>
         /\ r.sent = <<InvalidPathReply>> /\ ~r.loaded
         /\ ~active[r.addr].present
         /\ mtr.SegmentsSent = 0 /\ mtr.BytesSent = 0 /\ mtr.ActiveClients = 0

\* a REQ for a path that is neither "." nor ".." but leaves the base
\* directory has been answered
C8_Witness ==
  \E r \in hist.served :
    /\ r.kind = "REQ"
    /\ r.path = <<".", ".", "/", "a">>
    /\ r.sent = <<InvalidPathReply>>

\* a well-formed ERR frame: magic, version, type, a declared length that
\* is the real one and holds the code, the length and the message
WellFormedErr(b) ==
  /\ b.magic = "UC" /\ b.ver = ProtocolVersion /\ b.typ = ctrlTypeERR
  /\ b.plen = b.blen /\ b.dlen = ctrlHeaderSize + b.blen
  /\ b.plen = 4 + b.val.msgLen

\* a step in which the client, waiting for META, reads the k-th datagram
ReadsWhileWaiting(k) ==
  /\ cl.pc = "p1_read" /\ cl'.pc # "p1_read" /\ ~timer.expired
  /\ k \in 1..Len(s2c)
  /\ s2c' = RemoveAt(s2c, k)

\* C9 (ERR in Phase 1): when the client receives a well-formed ERR while it
\* waits for META, the transfer returns at once with ServerError carrying
\* the server's message; after that no REQ is sent, Phase 2 is never
\* entered, no file is written, and OnDone reports ok = false with an empty
\* path.
C9_ErrInPhase1 ==
  /\ [][\A k \in 1..Len(s2c) :
          (ReadsWhileWaiting(k) /\ WellFormedErr(s2c[k])) =>
            /\ cl'.pc = "ret" /\ cl'.err = "ServerError"
            /\ cl'.msg = s2c[k].val.msg.text]_vars
  /\ [](cl.err = "ServerError" =>
          /\ Ended /\ ~MetaReceived /\ recv = <<>>
          /\ files = <<>> /\ ~cl.ok /\ cl.out = <<>>
          /\ Reported => calls = <<[cb |-> "OnDone", out |-> <<>>, ok |-> FALSE]>>)
  /\ [][cl.err = "ServerError" => hist'.reqSent = hist.reqSent]_vars

\* the server's "arquivo nao encontrado" has ended the transfer
C9_Witness ==
  /\ Reported
  /\ cl.err = "ServerError" /\ cl.msg = ErrNotFound
  /\ calls = <<[cb |-> "OnDone", out |-> <<>>, ok |-> FALSE]>>

\* neither META nor ERR has been received
NoReply == ~MetaReceived /\ cl.err # "ServerError"

\* C10 (META timeout): the client sends one REQ per attempt, a REQ after
\* the first only when the read deadline of the attempt before has expired,
\* and never more REQs than the attempt count (Retries, or 3 when Retries
\* is not positive); a transfer that has received neither META nor ERR and
\* has not observed a cancel ends only with MetaTimeout, after exactly that
\* many REQs, without entering Phase 2 and without writing a file.
C10_MetaTimeout ==
  /\ [](/\ hist.reqSent <= (IF cfg.Retries > 0 THEN cfg.Retries ELSE 3)
        /\ hist.reqSent = (IF cl.pc = "p1_send" THEN cl.try - 1 ELSE cl.try)
        /\ (Ended /\ NoReply /\ cl.err # "Canceled") => cl.err = "MetaTimeout"
        /\ cl.err = "MetaTimeout" =>
             /\ Ended /\ NoReply
             /\ hist.reqSent = (IF cfg.Retries > 0 THEN cfg.Retries ELSE 3)
             /\ recv = <<>> /\ files = <<>> /\ ~cl.ok /\ cl.out = <<>>)
  /\ [][(hist'.reqSent # hist.reqSent) =>
          /\ hist'.reqSent = hist.reqSent + 1
          /\ NoReply
          /\ hist.reqSent > 0 => timer.expired]_vars

\* with Retries = 0 the third REQ went unanswered as well
C10_Witness ==
  /\ Reported
  /\ cl.err = "MetaTimeout"
  /\ cfg.Retries = 0 /\ hist.reqSent = 3
  /\ files = <<>>

\* C11 as stated (Retries floor): the client never gives up after fewer
\* than 3 META attempts or fewer than 3 NACK rounds, whatever Retries is.
C11_AsStated ==
  /\ cl.err = "MetaTimeout" => hist.reqSent >= 3
  /\ cl.err = "IncompleteTransfer" => Len(hist.nacks) >= 3

\* the budget the configuration gives: Retries, or 3 when it is not positive
Budget == IF cfg.Retries > 0 THEN cfg.Retries ELSE 3

\* C11, amended: the number of META attempts and the NACK round budget both
\* equal Retries when Retries > 0 and 3 when Retries <= 0: the client sends
\* at most that many REQs and that many NACKs, gives up on META after
\* exactly that many REQs and on the gaps after exactly that many NACKs.
C11_RetriesBudget ==
  /\ hist.reqSent <= Budget
  /\ Len(hist.nacks) <= Budget
  /\ cl.err = "MetaTimeout" => hist.reqSent = Budget
  /\ cl.err = "IncompleteTransfer" => Len(hist.nacks) = Budget

\* with Retries = 1 the client gave up on the gaps after a single NACK
C11_Witness ==
  /\ Reported
  /\ cfg.Retries = 1
  /\ cl.err = "IncompleteTransfer"
  /\ Len(hist.nacks) = 1

\* sent is the start of an initial blast: META, then DATA frames whose
\* sequences are 0, 1, 2, ... below META's Total, then EOF and nothing more
BlastPrefix(sent) ==
  sent # <<>> =>
    LET total == sent[1].val.total IN
    /\ sent[1].magic = "UC" /\ sent[1].typ = ctrlTypeMETA
    /\ Len(sent) <= total + 2
    /\ \A i \in 2..Len(sent) :
         IF i <= total + 1
         THEN sent[i].magic = "UD" /\ sent[i].seq = i - 2 /\ sent[i].total = total
         ELSE sent[i] = packEOF

\* sent is a whole initial blast
BlastWhole(sent) ==
  /\ sent # <<>>
  /\ BlastPrefix(sent)
  /\ Len(sent) = sent[1].val.total + 2

\* the REQ for path is accepted: the path passes the check and names a file
Accepted(path) ==
  /\ ~PathRejected(Clean(path))
  /\ loadFile(Join(<<".">>, Clean(path))).present

\* C12 (initial blast ordering): the frames a handler sends for an accepted
\* REQ are META first, then one DATA frame per chunk with the sequences
\* 0, 1, ..., Total-1 in ascending order, then EOF; at every moment what a
\* running handler has sent is a prefix of that, and a handler that has
\* returned has sent all of it.
C12_BlastOrdering ==
  /\ \A h \in 1..Len(handlers) :
       handlers[h].kind = "REQ" =>
         /\ BlastPrefix(handlers[h].sent)
         /\ handlers[h].pc = "return" => BlastWhole(handlers[h].sent)
         /\ handlers[h].sent # <<>> =>
              handlers[h].sent[1].val.total = Len(handlers[h].entry.chunks)
  /\ \A r \in hist.served :
       (r.kind = "REQ" /\ Accepted(r.path)) =>
         /\ BlastWhole(r.sent)
         /\ r.sent[1].val.total =
              Len(ReadChunks(RegularFiles[Join(<<".">>, Clean(r.path))]))

\* the three-chunk file was served: META, DATA 0, 1, 2, EOF
C12_Witness ==
  \E r \in hist.served :
    /\ r.kind = "REQ" /\ r.path = <<"a">>
    /\ Len(r.sent) = 5
    /\ r.sent[2].seq = 0 /\ r.sent[3].seq = 1 /\ r.sent[4].seq = 2
    /\ r.sent[5] = packEOF

\* the DATA frames for the sequences of missing that are below the chunk
\* count, in the order they are listed
RECURSIVE Resent(_, _)
Resent(chunks, missing) ==
  IF missing = <<>> THEN <<>>
  ELSE LET seq == Head(missing) IN
       (IF seq < Len(chunks)
        THEN <<[magic |-> "UD", ver |-> ProtocolVersion, seq |-> seq,
                total |-> Len(chunks), size |-> BLen(chunks[seq + 1]),
                crc |-> CRC32(chunks[seq + 1]), payload |-> chunks[seq + 1],
                dlen |-> dataHeaderSize + BLen(chunks[seq + 1])]>>
        ELSE <<>>)
       \o Resent(chunks, Tail(missing))

\* C13 (NACK service): a NACK handler takes the session its peer has when it
\* looks it up; it sends one DATA frame for each listed sequence smaller
\* than the session's chunk count, carrying that chunk's payload, its
\* length, the session's Total and the CRC32 of the payload, and nothing
\* for a sequence out of range; without a session it sends nothing.
C13_NackService ==
  /\ [](/\ \A h \in 1..Len(handlers) :
            handlers[h].kind = "NACK" =>
              /\ handlers[h].pc = "start" => handlers[h].sent = <<>>
              /\ handlers[h].pc = "resend" =>
                   /\ handlers[h].entry.present
                   /\ handlers[h].sent =
                        Resent(handlers[h].entry.chunks,
                               SubSeq(handlers[h].missing, 1, handlers[h].i - 1))
        /\ \A r \in hist.served :
            r.kind = "NACK" =>
              /\ r.sent = Resent(r.entry.chunks, r.missing)
              /\ ~r.entry.present => r.sent = <<>>)
  /\ [][mtr'.NacksReceived # mtr.NacksReceived =>
          \E h \in 1..Len(handlers) :
            /\ handlers[h].kind = "NACK" /\ handlers[h].pc = "start"
            /\ s2c' = s2c
            /\ IF active[handlers[h].addr].present
               THEN /\ Len(handlers') = Len(handlers)
                    /\ handlers'[h].entry = active[handlers[h].addr]
                    /\ handlers'[h].pc = "resend"
               ELSE /\ handlers' = RemoveAt(handlers, h)
                    /\ \E r \in hist'.served :
                         /\ r.kind = "NACK" /\ r.addr = handlers[h].addr
                         /\ r.missing = handlers[h].missing
                         /\ r.sent = <<>>]_vars

\* a NACK that lists a chunk of the session and a sequence beyond the last
\* chunk was served with the one frame
C13_Witness ==
  \E r \in hist.served :
    /\ r.kind = "NACK" /\ r.entry.present
    /\ r.missing = <<3, 2>>
    /\ Len(r.entry.chunks) = 3
    /\ Len(r.sent) = 1 /\ r.sent[1].seq = 2

\* packetLoop l exists and its socket is closed
LoopClosed(l) == l <= Len(srv.loops) /\ ~srv.open[srv.loops[l].conn]

\* packetLoop l has returned
LoopDone(l) == l <= Len(srv.loops) /\ srv.loops[l].pc = "done"

\* a call of Stop leaves the flag cleared and the current socket closed
C14_StopClears ==
  [][hist'.stopCalls # hist.stopCalls =>
       /\ ~srv'.running
       /\ srv.conn # 0 => ~srv'.open[srv.conn]]_vars

\* a loop whose socket is closed has no datagram left to dispatch
C14_NoLateDispatch ==
  \A l \in 1..MaxStarts : LoopClosed(l) => srv.loops[l].pc # "dispatch"

\* a loop whose socket is closed returns
C14_LoopExits ==
  \A l \in 1..MaxStarts : LoopClosed(l) ~> LoopDone(l)

\* C14 (server stop): after Stop() the running flag is cleared and the
\* endpoint is closed, and the packet loop that was running dispatches no
\* further datagram and eventually exits, in every interleaving of Stop()
\* with the loop and with a later Start().
C14_ServerStop ==
  /\ C14_StopClears
  /\ [](C14_NoLateDispatch)
  /\ C14_LoopExits

\* the loop of a stopped server is back in its read on the closed socket,
\* having found the flag set again by a later Start
C14_Spinning ==
  /\ LoopClosed(1) /\ srv.loops[1].pc = "read"
  /\ srv.running /\ srv.conn = 2 /\ srv.open[2]
  /\ hist.startCalls = MaxStarts

\* b, as it lies in the server's buffer, is a well-formed control frame of
\* type REQ, NACK or LIST: magic, version, the declared payload present,
\* and for a NACK the count and that many sequences inside the payload
WellFormedRequest(b) ==
  /\ b.dlen >= ctrlHeaderSize
  /\ b.magic = "UC" /\ b.ver = ProtocolVersion
  /\ b.dlen >= ctrlHeaderSize + b.plen
  /\ \/ b.typ \in {ctrlTypeREQ, ctrlTypeLIST}
     \/ b.typ = ctrlTypeNACK /\ b.plen >= 2 /\ b.plen >= 2 + 4 * b.val.count

\* the server has no session and has counted and sent nothing
Untouched ==
  /\ active = [p \in Peers |-> NoEntry]
  /\ mtr = [BytesSent |-> 0, SegmentsSent |-> 0, NacksReceived |-> 0,
            Retransmissions |-> 0, ActiveClients |-> 0]
  /\ handlers = <<>> /\ hist.served = {} /\ s2c = <<>>

\* C15 (server robustness): whatever datagram arrives, the packet loop goes
\* back to its read (it neither panics nor stops); the dispatch of a
\* datagram that is not a well-formed control frame of type REQ, NACK or
\* LIST sends no reply, starts no handler and changes neither the
\* active-transfers map nor any metric counter.
C15_ServerRobustness ==
  /\ [](srv.loops[1].pc \in {"read", "dispatch"} /\ srv.open[1])
  /\ [][(srv.loops[1].pc = "dispatch" /\ srv'.loops[1].pc # "dispatch"
           /\ ~WellFormedRequest(srv.loops[1].got[1].b)) =>
          /\ srv'.loops[1].pc = "read"
          /\ s2c' = s2c /\ handlers' = handlers
          /\ active' = active /\ mtr' = mtr]_vars

\* two datagrams were dispatched and the server is as it was before them
C15_Witness ==
  /\ hist.sentByPeer = MaxDatagrams
  /\ c2s = <<>> /\ srv.loops[1].pc = "read"
  /\ Untouched

\* the buffer bs is shorter than 18 bytes, or its magic is not 'UD', or its
\* version byte is not 1
HeaderRejected(bs) ==
  \/ Len(bs) < 18
  \/ bs[1] # 85 \/ bs[2] # 68
  \/ bs[3] # 1

\* the control buffer b has another magic than 'UC', another version than
\* 1, or is shorter than 6 + the declared payload length
CtrlRejected(b) ==
  \/ b.magic # "UC"
  \/ b.ver # 1
  \/ b.dlen < 6 + b.plen

\* the datagram b is rejected by the codec: as a DATA frame by
\* UnpackHeader on its bytes, as a control frame by DecodeCtrl
FrameRejected(b) ==
  IF "seq" \in DOMAIN b
  THEN HeaderRejected(SubSeq(HeaderBytes(b), 1, Min(b.dlen, 18)))
  ELSE CtrlRejected(b)

\* C16 (frame rejection): UnpackHeader fails for every buffer shorter than
\* 18 bytes, with a magic other than 'UD' or a version byte other than 1;
\* DecodeCtrl fails for every buffer with a magic other than 'UC', a
\* version byte other than 1, or shorter than 6 + the declared payload
\* length; the client stores no payload from a frame rejected this way and
\* the server sends no reply to one and starts no handler for it.
C16_FrameRejection ==
  /\ [](\A i \in 1..Len(hist.codec) :
          LET c == hist.codec[i] IN
          /\ (c.op = "UnpackHeader" /\ HeaderRejected(c.in)) => c.out.err
          /\ (c.op = "DecodeCtrl" /\ CtrlRejected(c.in)) => c.out.err)
  /\ [][(cl.pc = "p2_read" /\ cl'.pc # "p2_read" /\ s2c # <<>>
           /\ FrameRejected(s2c[1])) =>
          (recv' = recv /\ ctr' = ctr)]_vars
  /\ [][(srv.loops[1].pc = "dispatch" /\ srv'.loops[1].pc # "dispatch"
           /\ FrameRejected(srv.loops[1].got[1].b)) =>
          (s2c' = s2c /\ handlers' = handlers /\ mtr' = mtr)]_vars

\* the client has read the 17-byte 'UD' frame, which UnpackHeader rejects,
\* and holds no payload (the read ends the client: the slice past the
\* header is out of range); the server has dispatched the other datagram,
\* has sent nothing and has started no handler
C16_Witness ==
  /\ hist.sentByPeer = 2
  /\ s2c = <<>> /\ c2s = <<>> /\ handlers = <<>>
  /\ cl.pc = "panic" /\ srv.loops[1].pc = "read"
  /\ recv = <<>> /\ ctr.segs = 0

StatedPath(meta, outputPath) ==
  IF outputPath = <<>> THEN RecvPrefix \o Base(meta.Filename)
  ELSE IF outputPath \in ClientDirs
       THEN outputPath \o <<"/">> \o RecvPrefix \o Base(meta.Filename)
       ELSE outputPath

\* C18 (output path resolution): a complete file whose digest matches is
\* written to recv_<basename of the META filename> when the configured
\* output path is empty, to <output path>/recv_<basename> when it is an
\* existing directory, and to the output path itself otherwise.
C18_OutputPath ==
  [][(/\ cl.pc = "assemble" /\ cl'.pc = "ret"
      /\ computeMissing(cl.meta.Total, recv) = <<>>
      /\ SHA256FileChunks(InOrder) = cl.meta.SHA256) =>
     (/\ StatedPath(cl.meta, cfg.OutputPath) \in DOMAIN files'
      /\ files'[StatedPath(cl.meta, cfg.OutputPath)] = Norm(ConcatAll(InOrder)))]_vars

\* the output path is an existing directory: every chunk was received, yet
\* the transfer has ended with no file written and OnDone("", false)
C18_DirectoryRefused ==
  /\ cl.pc = "done"
  /\ cfg.OutputPath \in ClientDirs
  /\ computeMissing(cl.meta.Total, recv) = <<>>
  /\ cl.meta.Total > 0
  /\ files = <<>>
  /\ cl.err = "CreateFailed"
  /\ calls[Len(calls)] = [cb |-> "OnDone", out |-> <<>>, ok |-> FALSE]

\* with an output path that is empty or names no directory the file is
\* where the rule says
C18_FileWritten ==
  (cl.pc = "done" /\ cfg.OutputPath \notin ClientDirs /\ cl.ok) =>
    /\ DOMAIN files = {StatedPath(cl.meta, cfg.OutputPath)}
    /\ cl.out = StatedPath(cl.meta, cfg.OutputPath)

\* ceil(n / ChunkSize)
CeilChunks(n) == (n + ChunkSize - 1) \div ChunkSize

\* chunks is the segmentation of content
Segmented(content, chunks) ==
  /\ Len(chunks) = CeilChunks(BLen(content))
  /\ \A i \in 1..Len(chunks) :
       IF i < Len(chunks) THEN BLen(chunks[i]) = ChunkSize
       ELSE BLen(chunks[i]) >= 1 /\ BLen(chunks[i]) <= ChunkSize
  /\ Norm(ConcatAll(chunks)) = Norm(content)

\* C19 (segmentation): for a regular file of Size bytes the session holds
\* Total = ceil(Size / 1024) chunks in file order (none for an empty file),
\* each of 1024 bytes but the last, which has 1 to 1024; their
\* concatenation is the file; META.Total is the chunk count; and the size
\* field of every DATA frame sent is the length of its payload, which is
\* the chunk of its sequence.
C19_Segmentation ==
  \A h \in 1..Len(handlers) :
    (handlers[h].kind = "REQ" /\ handlers[h].loaded) =>
      LET g == handlers[h]
          content == RegularFiles[Join(<<".">>, Clean(g.path))]
          chunks == g.entry.chunks
      IN /\ Segmented(content, chunks)
         /\ g.entry.meta.Total = Len(chunks)
         /\ g.entry.meta.Size = BLen(content)
         /\ \A i \in 1..Len(g.sent) :
              /\ g.sent[i].magic = "UC" /\ g.sent[i].typ = ctrlTypeMETA =>
                   g.sent[i].val.total = Len(chunks)
              /\ g.sent[i].magic = "UD" =>
                   /\ g.sent[i].size = BLen(g.sent[i].payload)
                   /\ g.sent[i].dlen = dataHeaderSize + g.sent[i].size
                   /\ g.sent[i].seq < Len(chunks)
                   /\ g.sent[i].payload = chunks[g.sent[i].seq + 1]

\* the handler of the 1025-byte file has sent META with Total 2, DATA seq 0
\* of 1024 bytes, DATA seq 1 of 1 byte and EOF
C19_Witness ==
  \E h \in 1..Len(handlers) :
    /\ handlers[h].kind = "REQ" /\ handlers[h].path = <<"c">>
    /\ handlers[h].pc = "return"
    /\ Len(handlers[h].sent) = 4
    /\ handlers[h].sent[1].val.total = 2
    /\ handlers[h].sent[2].seq = 0 /\ handlers[h].sent[2].size = 1024
    /\ handlers[h].sent[3].seq = 1 /\ handlers[h].sent[3].size = 1
    /\ handlers[h].sent[4] = packEOF

\* the four counters of the claim
Counters == {"BytesSent", "SegmentsSent", "NacksReceived", "Retransmissions"}

\* C20 (metric monotonicity): under every interleaving of concurrent REQ
\* and NACK handlers no step lowers BytesSent, SegmentsSent, NacksReceived
\* or Retransmissions, and of any two Snapshot() calls the later returns,
\* for each of these counters, at least what the earlier returned.
C20_MetricMonotonicity ==
  /\ [][\A c \in Counters : mtr'[c] >= mtr[c]]_vars
  /\ [](\A i, j \in 1..Len(hist.snap.done) :
          i < j => \A c \in Counters : hist.snap.done[j][c] >= hist.snap.done[i][c])

\* two snapshots were taken while a REQ handler and a NACK handler ran: the
\* second shows more bytes than the first, and a retransmission
C20_Witness ==
  /\ Len(hist.snap.done) = 2
  /\ hist.snap.done[1].BytesSent > 0
  /\ hist.snap.done[2].BytesSent > hist.snap.done[1].BytesSent
  /\ hist.snap.done[2].NacksReceived >= 1
  /\ hist.snap.done[2].Retransmissions >= 1
  /\ \E h, g \in 1..Len(handlers) :
       handlers[h].kind = "REQ" /\ handlers[g].kind = "NACK"

\* the handler hs[h] is in its initial blast: registered, EOF not yet sent
InBlast(hs, h) ==
  /\ hs[h].kind = "REQ"
  /\ hs[h].pc \in {"registered", "meta", "data", "eof"}

\* C21 (handler concurrency): the accept loop never waits for a REQ or NACK
\* handler: whenever it has a datagram to read it can read it, and
\* whenever it has read one it can dispatch it, whatever the handlers are
\* doing; in particular while an initial blast is in progress.
C21_HandlerConcurrency ==
  /\ (srv.loops[1].pc = "read" /\ srv.open[1] /\ c2s # <<>>) =>
       ENABLED packetLoop_read(1, 1)
  /\ (srv.loops[1].pc = "dispatch" /\ Len(handlers) < MaxHandlers) =>
       ENABLED dispatchCtrl(1)

\* the blast of the three-chunk file to one peer is in progress (two chunks
\* still to send); the handler of the REQ of the other peer, started after
\* it, has sent its whole blast
C21_Witness ==
  /\ Len(handlers) = 2
  /\ handlers[1].addr # handlers[2].addr
  /\ handlers[1].path = <<"a">>
  /\ InBlast(handlers, 1) /\ handlers[1].pc = "data" /\ handlers[1].i = 1
  /\ handlers[2].kind = "REQ" /\ handlers[2].pc = "return"
  /\ BlastWhole(handlers[2].sent)

\* the sequence q lists the members of the set S once each, ascending
ListsAscending(q, S) ==
  /\ {q[j] : j \in 1..Len(q)} = S
  /\ \A j \in 1..(Len(q) - 1) : q[j] < q[j + 1]

\* C22 (NACK content): every NACK frame the client sends lists exactly the
\* sequences of [0, Total) absent from the receive map at the moment of
\* sending, each once and in ascending order, for any number of missing
\* sequences and with or without a log callback.
C22_NackContent ==
  \A k \in 1..Len(hist.nacks) :
    ListsAscending(hist.nacks[k].listed,
                   {hist.nacks[k].missing[j] : j \in 1..Len(hist.nacks[k].missing)})

\* with a log callback and 21 sequences missing, the NACK sent has 21
\* entries, lists sequence 20 twice and sequence 10 not at all
C22_Aliased ==
  /\ cfg.hasLog
  /\ Len(hist.nacks) >= 1
  /\ hist.nacks[1].missing = [j \in 1..21 |-> j - 1]
  /\ Len(hist.nacks[1].listed) = 21
  /\ hist.nacks[1].listed[20] = 20 /\ hist.nacks[1].listed[21] = 20
  /\ \A j \in 1..21 : hist.nacks[1].listed[j] # 10

\* without a log callback the NACK for 21 missing sequences lists them all
C22_NoLogExact ==
  (~cfg.hasLog /\ Len(hist.nacks) >= 1) => hist.nacks[1].listed = hist.nacks[1].missing

\* a round of Phase 3 starts and cancellation is not observed
RoundStarts == cl.pc = "p3_top" /\ cl'.pc # "p3_top" /\ ~cancelClosed

\* C23 (NACK round budget): in one transfer the client sends at most
\* `budget` NACK frames (the round budget taken from Retries); a round that
\* starts with nothing missing sends no NACK and ends Phase 3 with success;
\* a round that starts with something missing sends one NACK while fewer
\* than `budget` were sent; the transfer fails with IncompleteTransfer
\* exactly when `budget` rounds have been used and a sequence of [0, Total)
\* is still missing.
C23_RoundBudget ==
  /\ [](Len(hist.nacks) <= Budget)
  /\ [](cl.err = "IncompleteTransfer" => (Len(hist.nacks) = Budget /\ Absent # {}))
  /\ [][(RoundStarts /\ Absent = {}) =>
          (c2s' = c2s /\ hist'.nacks = hist.nacks /\ cl'.pc = "assemble")]_vars
  /\ [][(RoundStarts /\ Absent # {} /\ Len(hist.nacks) < Budget) =>
          (Len(hist'.nacks) = Len(hist.nacks) + 1 /\ cl'.pc = "p3_loop"
           /\ Len(c2s') = Len(c2s) + 1)]_vars
  /\ [][(RoundStarts /\ Absent # {} /\ Len(hist.nacks) >= Budget) =>
          (c2s' = c2s /\ cl'.pc = "ret" /\ cl'.err = "IncompleteTransfer")]_vars

\* with Retries = 2 two NACKs were sent and the second round brought the
\* chunk: Phase 3 has ended with success and the file is written
C23_Witness ==
  /\ cfg.Retries = 2
  /\ Len(hist.nacks) = 2
  /\ Reported /\ cl.ok /\ cl.err = "none"
  /\ Absent = {}

\* the client is in the initial reception (Phase 2)
InPhase2 == cl.pc \in {"p2_poll", "p2_read"}

\* the step takes the client out of Phase 2
LeavesPhase2 == InPhase2 /\ cl'.pc \notin {"p2_poll", "p2_read"}

\* the step is a read timeout that brings the idle counter to the threshold
IdleExit == cl.pc = "p2_read" /\ timer.expired /\ cl.idleCount + 1 >= cl.maxRounds * IdleFactor

\* C24 as stated: after EOF the client keeps reading in Phase 2; it leaves
\* Phase 2 only when the idle threshold is reached or cancellation is
\* observed.
C24_AsStated ==
  [][LeavesPhase2 => (IdleExit \/ cancelClosed)]_vars

\* C24, amended: a control EOF received in Phase 2 sets the EOF flag and
\* ends Phase 2: the next loop test leaves for Phase 3 without another
\* read, whatever is still in flight, so no datagram is read in Phase 2
\* with the flag set; Phase 2 is left only on EOF, on the idle threshold or
\* on cancellation (or when the client dies on a short DATA frame).  A DATA
\* frame that arrives after EOF is read in a NACK round of Phase 3, if
\* there is one.
C24_EofEndsPhase2 ==
  /\ [](cl.eof => cl.pc # "p2_read")
  /\ [][(cl.pc = "p2_poll" /\ cl.eof /\ cl' # cl) =>
          (cl'.pc = "p3_top" /\ recv' = recv /\ ctr' = ctr /\ s2c' = s2c)]_vars
  /\ [][(cl.pc = "p2_read" /\ cl'.pc = "p2_poll" /\ s2c # s2c' /\ cl'.eof) =>
          (\E k \in 1..Len(s2c) : s2c[k] = packEOF)]_vars
  /\ [][LeavesPhase2 =>
          (cl.eof \/ IdleExit \/ cancelClosed \/ cl'.pc = "panic")]_vars

\* EOF overtook a DATA frame: the client has left Phase 2 on EOF with the
\* idle counter at 0, a sequence is missing, and its DATA frame is still in
\* flight
C24_Witness ==
  /\ cl.eof /\ cl.pc = "p3_top" /\ cl.idleCount = 0
  /\ hist.nacks = <<>>
  /\ \E k \in 1..Len(s2c) :
       /\ s2c[k].magic = "UD" /\ "seq" \in DOMAIN s2c[k]
       /\ s2c[k].seq \in Absent

\* the idle threshold of the claim
IdleThreshold == 3 * cfg.Retries

\* a read of Phase 2 fails on its deadline
Phase2Timeout == cl.pc = "p2_read" /\ timer.expired /\ cl' # cl

\* a read of Phase 2 returns a datagram
Phase2Read == cl.pc = "p2_read" /\ s2c' # s2c /\ cl' # cl /\ cl'.pc # "panic"

\* C25 (idle detection): in Phase 2 the counter of consecutive read
\* timeouts goes up by one on every deadline expiry and back to 0 on every
\* successful read; with T = 3 x Retries, the expiry that brings the
\* counter to T moves the client on to Phase 3 when a chunk has been
\* accepted and fails the transfer with NoDataReceived when none has.
C25_IdleDetection ==
  /\ [][(Phase2Timeout /\ cl'.pc = "p2_poll") => cl'.idleCount = cl.idleCount + 1]_vars
  /\ [][Phase2Read => cl'.idleCount = 0]_vars
  /\ [][(cfg.Retries > 0 /\ Phase2Timeout /\ cl.idleCount + 1 = IdleThreshold) =>
          IF recv # <<>> THEN cl'.pc = "p3_top"
          ELSE cl'.pc = "ret" /\ cl'.err = "NoDataReceived"]_vars

\* no chunk has been accepted, the counter stands at T = 3 x Retries, and
\* the client is reading again
C25_OneMore ==
  /\ cfg.Retries > 0
  /\ cl.pc = "p2_read"
  /\ recv = <<>>
  /\ cl.idleCount = IdleThreshold

\* what the code does: with a chunk accepted the phase ends at T
\* consecutive timeouts, with none the transfer fails at T + 1
C25_Thresholds ==
  /\ [][(cfg.Retries > 0 /\ Phase2Timeout /\ recv # <<>>) =>
          (cl'.pc = "p3_top" <=> cl.idleCount + 1 >= IdleThreshold)]_vars
  /\ [][(cfg.Retries > 0 /\ Phase2Timeout /\ recv = <<>>) =>
          (cl'.err = "NoDataReceived" <=> cl.idleCount + 1 > IdleThreshold)]_vars

\* the client reads the datagram at the head of its socket in Phase 2 or 3
ClientReads ==
  /\ cl.pc \in {"p2_read", "p3_read"}
  /\ cl' # cl
  /\ s2c # <<>> /\ s2c' = Tail(s2c)

\* b is a DATA frame with a sound header whose payload is not as long as
\* the header declares
WrongLength(b) ==
  /\ "seq" \in DOMAIN b
  /\ b.magic = "UD" /\ b.ver = ProtocolVersion /\ b.dlen >= dataHeaderSize
  /\ b.dlen - dataHeaderSize # b.size

\* C26 (payload length check): the client drops every DATA frame whose
\* payload length (datagram length minus the 18-byte header) differs from
\* the size its header declares, shorter or longer; such a frame is never
\* stored and never changes the counters.
C26_PayloadLength ==
  [][(ClientReads /\ WrongLength(s2c[1])) => (recv' = recv /\ ctr' = ctr)]_vars

\* the chunk of sequence 1 in the receive map was stored from the frame
\* that carries one byte more than its header declares
C26_LongAccepted ==
  /\ 1 \in DOMAIN hist.storedFrom
  /\ hist.storedFrom[1] = LongData
  /\ 1 \in DOMAIN recv /\ ctr.segs >= 1

\* a frame with less payload than declared is never stored
C26_ShortDropped ==
  [][(ClientReads /\ WrongLength(s2c[1]) /\ s2c[1].dlen - dataHeaderSize < s2c[1].size)
       => (recv' = recv /\ ctr' = ctr)]_vars

\* b decodes as a META or an ERR control frame
MetaOrErr(b) ==
  /\ IsCtrl(b)
  /\ ~DecodeCtrl(b).err
  /\ DecodeCtrl(b).typ \in {"META", "ERR"}

\* the client, waiting for META, reads the datagram at the head of its socket
Phase1Reads == cl.pc = "p1_read" /\ cl' # cl /\ s2c # <<>> /\ s2c' = Tail(s2c)

\* C27 (Phase 1 filtering): while the client waits for META, a received
\* datagram that is not a well-formed META or ERR (a DATA frame, EOF, NACK,
\* LIST, LST, REQ, a malformed frame) is ignored: the attempt goes on, no
\* attempt is used up, no REQ is sent, the deadline of the attempt is not
\* moved, nothing is stored or reported; the next step of the client is
\* the next read, not a resend.
C27_Phase1Filtering ==
  /\ [][(Phase1Reads /\ ~MetaOrErr(s2c[1])) =>
          /\ cl' = [cl EXCEPT !.pc = "p1_poll"]
          /\ c2s' = c2s /\ hist'.reqSent = hist.reqSent
          /\ timer' = timer
          /\ recv' = recv /\ ctr' = ctr /\ calls' = calls /\ files' = files]_vars
  /\ [][(cl.pc = "p1_poll" /\ cl' # cl) => (cl'.pc = "p1_read" /\ c2s' = c2s)]_vars
  /\ [](cl.pc \in {"p1_poll", "p1_read"} => hist.reqSent = cl.try)

\* the stray DATA frame was read in the first attempt and passed over: the
\* client is still in that attempt, one REQ sent, the deadline not passed
C27_Witness ==
  /\ hist.passedOver # <<>>
  /\ hist.passedOver[1].phase = "p1_read"
  /\ hist.passedOver[1].b = LongData
  /\ cl.pc = "p1_poll" /\ cl.try = 1 /\ hist.reqSent = 1
  /\ ~timer.expired
  /\ calls = <<>> /\ recv = <<>>

\* b is a control frame that is not a well-formed EOF
OtherCtrl(b) ==
  IsCtrl(b) /\ (DecodeCtrl(b).err \/ DecodeCtrl(b).typ # "EOF")

\* C28 (Phase 2/3 control filtering): in Phase 2 and Phase 3 a received
\* control frame other than EOF (META, ERR, REQ, NACK, LIST, LST, or one
\* that does not decode) leaves the receive map and the byte and segment
\* counters unchanged, sets no EOF flag, reports nothing, and neither ends
\* the phase nor fails the transfer: the client goes on to its next read;
\* an EOF received in Phase 3 changes nothing either.
C28_ControlFiltering ==
  /\ [][(ClientReads /\ OtherCtrl(s2c[1])) =>
          /\ recv' = recv /\ ctr' = ctr /\ calls' = calls /\ files' = files
          /\ cl'.eof = cl.eof /\ cl'.err = cl.err /\ cl'.rounds = cl.rounds
          /\ cl'.pc = IF cl.pc = "p2_read" THEN "p2_poll" ELSE "p3_loop"]_vars
  /\ [][(ClientReads /\ cl.pc = "p3_read" /\ s2c[1] = packEOF) =>
          /\ recv' = recv /\ ctr' = ctr /\ calls' = calls /\ files' = files
          /\ cl' = [cl EXCEPT !.pc = "p3_loop"]]_vars
  /\ [][(cl.pc = "p2_poll" /\ ~cl.eof /\ cl' # cl) => cl'.pc = "p2_read"]_vars
  /\ [][(cl.pc = "p3_loop" /\ ~timer.roundOver /\ cl' # cl) => cl'.pc = "p3_read"]_vars

\* an ERR frame was read inside a NACK round and passed over; the transfer
\* has ended with the file complete and verified
C28_Witness ==
  /\ hist.passedOver # <<>>
  /\ hist.passedOver[1].phase = "p3_read"
  /\ hist.passedOver[1].b = packERR(ErrText(ErrNotFound))
  /\ Reported /\ cl.ok /\ cl.err = "none"
  /\ Absent = {}

\* packetLoop reads the datagram at the head of the queue
ServerReads ==
  /\ c2s # <<>>
  /\ srv.loops[1].pc = "read" /\ srv'.loops[1].pc = "dispatch"

\* the control frame `got`, as read by the server, is the frame `sent`, whole,
\* with its length fields holding the true lengths, and a NACK decodes to
\* the list that was encoded
ArrivesWhole(sent, got) ==
  /\ sent.dlen <= ServerBufSize
  /\ got = sent
  /\ sent.plen = sent.blen
  /\ sent.typ = ctrlTypeNACK =>
       /\ sent.val.count = Len(sent.val.seqs)
       /\ ~DecodeCtrl(got).err
       /\ DecodeCtrl(got).typ = "NACK"
       /\ DecodeCtrl(got).val.Missing = sent.val.seqs

\* C29 (control-frame size bound): every control frame a client sends (REQ,
\* LIST, and a NACK listing any number k of missing sequences, 1 <= k <=
\* Total) fits in the server's 4096-byte receive buffer and within the
\* 16-bit count and payload-length fields, so the server decodes each NACK
\* to exactly the list of sequences the client encoded.
C29_FrameSizeBound ==
  [][ServerReads => ArrivesWhole(c2s[1].b, srv'.loops[1].got[1].b)]_vars

\* the NACK for a file of 1023 chunks, none of which arrived, is in the
\* server's hands cut to 4096 bytes: it does not decode
C29_NackCut ==
  /\ srv.loops[1].pc = "dispatch"
  /\ LET b == srv.loops[1].got[1].b IN
       /\ b.typ = ctrlTypeNACK /\ Len(b.val.seqs) = NackFit + 1
       /\ b.dlen = ServerBufSize /\ b.dlen < ctrlHeaderSize + b.plen
       /\ DecodeCtrl(b).err

\* a NACK of at most NackFit sequences does arrive whole and decodes to
\* the list that was encoded
C29_UpToNackFit ==
  [][(ServerReads /\ c2s[1].b.typ = ctrlTypeNACK
        /\ Len(c2s[1].b.val.seqs) <= NackFit) =>
       ArrivesWhole(c2s[1].b, srv'.loops[1].got[1].b)]_vars

\* c is one of 0-9, a-f, A-F
IsHexDigit(c) == \E v \in 1..16 : c \in {LowerDigits[v], UpperDigits[v]}

\* the value of the hex digit c
DigitValue(c) == (CHOOSE v \in 1..16 : c \in {LowerDigits[v], UpperDigits[v]}) - 1

\* s is exactly 64 hex digits
IsHex64(s) == Len(s) = HexLen /\ \A i \in 1..HexLen : IsHexDigit(s[i])

\* the 32 bytes that 64 hex digits name
Decoded(s) == [i \in 1..ShaLen |-> 16 * DigitValue(s[2 * i - 1]) + DigitValue(s[2 * i])]

\* the calls of parseHexSha made
HexCalls == {i \in 1..Len(hist.codec) : hist.codec[i].op = "parseHexSha"}

\* C30 (hex parsing): parseHexSha returns the 32 decoded bytes for a string
\* of exactly 64 hex digits and 32 zero bytes for every malformed input
\* (wrong length, or a non-hex character at any position, first or later);
\* it never fails: the result is always 32 bytes.
C30_HexParsing ==
  \A i \in HexCalls :
    LET c == hist.codec[i] IN
      /\ Len(c.out) = ShaLen
      /\ IsHex64(c.in) => c.out = Decoded(c.in)
      /\ ~IsHex64(c.in) => c.out = ZeroBytes

\* a string of 64 characters whose first pair is "ab" and whose third
\* character is 'g' was parsed: the result starts with the byte 0xab
C30_PartialResult ==
  /\ HexCalls # {}
  /\ LET c == hist.codec[1] IN
       /\ Len(c.in) = HexLen
       /\ c.in[1] = 97 /\ c.in[2] = 66 /\ c.in[3] = 103
       /\ c.out[1] = 171
       /\ c.out # ZeroBytes

\* what parseHexSha does return: the decoded bytes for 64 hex digits, zero
\* bytes for a string of another length or with a non-hex character in its
\* first pair, and otherwise the bytes of the pairs before the first one
\* that is not hex, followed by zeros
C30_PrefixDecoded ==
  \A i \in HexCalls :
    LET c == hist.codec[i] IN
      /\ Len(c.out) = ShaLen
      /\ IsHex64(c.in) => c.out = Decoded(c.in)
      /\ Len(c.in) # HexLen => c.out = ZeroBytes
      /\ (Len(c.in) = HexLen /\ ~(IsHexDigit(c.in[1]) /\ IsHexDigit(c.in[2]))) =>
           c.out = ZeroBytes
      /\ (Len(c.in) = HexLen /\ ~IsHex64(c.in)) =>
           \E n \in 0..(ShaLen - 1) :
             /\ \A k \in 1..(2 * n) : IsHexDigit(c.in[k])
             /\ ~(IsHexDigit(c.in[2 * n + 1]) /\ IsHexDigit(c.in[2 * n + 2]))
             /\ \A k \in 1..ShaLen :
                  c.out[k] = IF k <= n
                             THEN 16 * DigitValue(c.in[2 * k - 1]) + DigitValue(c.in[2 * k])
                             ELSE 0

\* the chunks of the requested file as the server holds them
ServerChunks == loadFile(Join(<<".">>, Clean(cfg.Path))).chunks

\* C31 (end-to-end data safety): for a file that does not change on the
\* server, under any loss, duplication and reordering of frames (overlapping
\* blasts of a resent REQ included), every payload in the client's receive
\* map at key s is the server's chunk s; a transfer that reports integrity
\* ok has written exactly the server's bytes.
C31_DataSafety ==
  /\ \A q \in DOMAIN recv :
        q < Len(ServerChunks) /\ recv[q] = ServerChunks[q + 1]
  /\ (Ended /\ cl.ok) =>
        /\ cl.out \in DOMAIN files
        /\ files[cl.out] = Norm(RegularFiles[cfg.Path])

\* a transfer has reported success after its REQ was sent twice, both
\* blasts ran and a datagram was delivered twice
C31_Witness ==
  /\ Reported /\ cl.ok
  /\ hist.reqSent = 2
  /\ faults = 1
  /\ Cardinality({g \in hist.served : g.kind = "REQ" /\ Len(g.sent) = 4}) >= 1
  /\ mtr.SegmentsSent = 4
  /\ files[cl.out] = Norm(RegularFiles[cfg.Path])

\* META was received and no sequence of [0, Total) is absent
Complete == MetaReceived /\ Absent = {}

\* C32 (completeness implies success): once META has been received and
\* every sequence in [0, Total) is in the receive map (vacuously so when
\* Total = 0), the transfer does not end with NoDataReceived or
\* IncompleteTransfer, whatever frames, the EOF included, were lost.
C32_CompleteSucceeds ==
  (Ended /\ Complete) => cl.err \notin {"NoDataReceived", "IncompleteTransfer"}

\* the META of the empty file arrived, the EOF did not, nobody canceled:
\* the transfer has reported NoDataReceived
C32_EmptyFileFails ==
  /\ Reported /\ ~cl.ok
  /\ cl.err = "NoDataReceived"
  /\ MetaReceived /\ cl.meta.Total = 0 /\ Absent = {}
  /\ ~cancel
  /\ files = <<>>

\* with at least one chunk the statement holds: a complete receive map
\* never ends in NoDataReceived or IncompleteTransfer
C32_NonEmptyComplete ==
  (Ended /\ Complete /\ cl.meta.Total > 0) =>
     cl.err \notin {"NoDataReceived", "IncompleteTransfer"}

\* the ways a transfer ends
Outcomes ==
  {"none", "ServerError", "MetaTimeout", "NoDataReceived", "IncompleteTransfer",
   "IntegrityMismatch", "Canceled", "CreateFailed"}

Dones == {i \in 1..Len(calls) : calls[i].cb = "OnDone"}

LoopAlive(l) == l <= Len(srv.loops) /\ srv.loops[l].pc \in {"read", "dispatch"}

\* Start has succeeded a second time, after a Stop, and Stop has not been
\* called since
Restarted == Len(srv.loops) = 2 /\ hist.stopCalls = hist.stopsAtStart

\* C35 (restart safety): when Start() succeeds after a Stop(), the new
\* packet loop keeps reading and dispatching until Stop() is called again;
\* the exit of the previous loop never clears the running flag the new loop
\* sees (the flag goes from set to clear only in a call of Stop), and at
\* most one loop is alive once the previous one has observed the stop.
C35_RestartSafety ==
  /\ [][(srv.running /\ ~srv'.running) => hist'.stopCalls # hist.stopCalls]_vars
  /\ [](Restarted => (srv.running /\ srv.open[2] /\ LoopAlive(2)))
  /\ []((Len(srv.loops) = 2 /\ ~LoopAlive(1)) =>
          Cardinality({l \in 1..Len(srv.loops) : LoopAlive(l)}) <= 1)

\* Stop has not been called since the restart, the first loop has
\* returned, and the second loop has returned too, its socket closed
C35_NewLoopEnded ==
  /\ Restarted
  /\ srv.loops[1].pc = "done"
  /\ srv.loops[2].pc = "done"
  /\ ~srv.running /\ ~srv.open[2]

\* the flag goes from set to clear only in a call of Stop or in the
\* deferred store of a loop that returns
C35_ClearedByStopOrExit ==
  [][(srv.running /\ ~srv'.running) =>
       \/ hist'.stopCalls # hist.stopCalls
       \/ \E l \in 1..Len(srv.loops) :
            srv.loops[l].pc = "exit" /\ srv'.loops[l].pc = "done"]_vars

\* the goroutines that are sending an initial blast to the peer addr:
\* handleREQ from its META until its EOF is written
Blasting(addr) ==
  {h \in 1..Len(handlers) :
     /\ handlers[h].kind = "REQ" /\ handlers[h].addr = addr
     /\ handlers[h].pc \in {"meta", "data", "eof"}}

\* C36 (one blast per peer): for each peer address at most one initial
\* blast (META, DATA, EOF) is in progress at any time, also when the peer
\* sends a second REQ, such as a resend after a META timeout, before the
\* first blast has finished.
C36_OneBlastPerPeer ==
  \A addr \in Peers : Cardinality(Blasting(addr)) <= 1

\* the client has sent its REQ twice and two goroutines are in their DATA
\* loops for it, each with its first DATA frame written
C36_TwoBlasts ==
  /\ hist.reqSent = 2
  /\ Len(handlers) = 2
  /\ \A h \in 1..2 :
        /\ handlers[h].kind = "REQ" /\ handlers[h].addr = ClientAddr
        /\ handlers[h].pc = "data" /\ handlers[h].i = 1
  /\ mtr.ActiveClients = 2

\* a handleREQ goroutine answers ERR and returns in this step
AnswersErr(h) ==
  /\ h \in 1..Len(handlers)
  /\ handlers[h].kind = "REQ" /\ handlers[h].pc = "start"
  /\ handlers' = RemoveAt(handlers, h)

\* C37 (failed REQ leaves state unchanged): a REQ that is answered with ERR
\* (invalid path, missing file, directory) leaves the active-transfers map,
\* an earlier session of the same peer included, every metric counter and
\* the ActiveClients gauge as they were; a later NACK of that peer is
\* served from the earlier session.
C37_FailedReq ==
  /\ [][(\E h \in 1..MaxHandlers : AnswersErr(h)) =>
          /\ active' = active /\ mtr' = mtr
          /\ Len(s2c') = Len(s2c) + 1
          /\ s2c'[Len(s2c')].typ = ctrlTypeERR]_vars
  /\ [](\A g \in hist.served :
          (g.kind = "REQ" /\ loadFile(Join(<<".">>, Clean(g.path))) = NoEntry) =>
            /\ Len(g.sent) = 1 /\ g.sent[1].typ = ctrlTypeERR
            /\ \E e \in hist.errWith : e.addr = g.addr /\ e.path = g.path)
  /\ [](\A e \in hist.errWith :
          e.session.present => active[e.addr] = e.session)
  /\ [](\A g \in hist.served :
          (g.kind = "NACK" /\ \E e \in hist.errWith : e.addr = g.addr /\ e.session.present)
            => (g.entry.present => g.sent = Resent(g.entry.chunks, g.missing)))

\* the peer has a session for "c"; its REQ for the missing file "x" was
\* answered with ERR while that session existed; the NACK it sent after
\* that is being served from the session, chunk 0 resent
C37_Witness ==
  /\ [addr |-> ClientAddr, path |-> <<"x">>, session |-> loadFile(<<"c">>)]
       \in hist.errWith
  /\ active[ClientAddr] = loadFile(<<"c">>)
  /\ \E g \in hist.served :
       /\ g.kind = "NACK" /\ g.addr = ClientAddr
       /\ g.entry = loadFile(<<"c">>)
       /\ g.sent = Resent(loadFile(<<"c">>).chunks, <<0>>)
  /\ mtr = [BytesSent |-> 3 * dataHeaderSize + 2 * ChunkSize + 1,
            SegmentsSent |-> 2, NacksReceived |-> 1,
            Retransmissions |-> 1, ActiveClients |-> 0]

\* the handleREQ goroutines whose position is one of pcs
ReqAt(pcs) ==
  {h \in 1..Len(handlers) : handlers[h].kind = "REQ" /\ handlers[h].pc \in pcs}

\* C38 as stated (ActiveClients gauge): in every reachable state the gauge
\* is >= 0 and equals the number of REQ handlers that have registered their
\* session and have not yet finished sending EOF; it is 0 whenever no
\* initial blast is in progress.
C38_AsStated ==
  /\ mtr.ActiveClients >= 0
  /\ mtr.ActiveClients = Cardinality(ReqAt({"registered", "meta", "data", "eof"}))
  /\ ReqAt({"meta", "data", "eof"}) = {} => mtr.ActiveClients = 0

\* C38 (ActiveClients gauge): in every reachable state the gauge is >= 0
\* and equals the number of REQ handlers that have made their increment,
\* which follows the registration of the session, and have not yet made
\* the deferred decrement, which follows the EOF; it is 0 whenever no REQ
\* handler is running.
C38_Gauge ==
  /\ mtr.ActiveClients >= 0
  /\ mtr.ActiveClients = Cardinality(ReqAt({"meta", "data", "eof", "return"}))
  /\ ReqAt({"start", "registered", "meta", "data", "eof", "return"}) = {} =>
       mtr.ActiveClients = 0

\* two blasts are in progress, one handler in its DATA loop and one with
\* its EOF written and its decrement still to come: the gauge is 2
C38_Witness ==
  /\ Len(handlers) = 2
  /\ handlers[1].kind = "REQ" /\ handlers[1].pc = "return"
  /\ handlers[2].kind = "REQ" /\ handlers[2].pc = "data" /\ handlers[2].i = 1
  /\ mtr.ActiveClients = 2

\* C39 (receive-map key range): in every reachable state every key of the
\* client's receive map is smaller than the Total announced in the META of
\* the transfer, and the segment counter never exceeds Total, whatever seq
\* and total the headers of the well-formed DATA frames delivered carry.
C39_KeyRange ==
  cl.meta # NoMeta =>
    /\ \A k \in DOMAIN recv : k < cl.meta.Total
    /\ ctr.segs <= cl.meta.Total

\* the transfer of two segments has stored both and, under the key 5, the
\* payload of a well-formed frame numbered 5 of 9: three segments counted
C39_KeyBeyondTotal ==
  /\ cl.meta.Total = 2
  /\ DOMAIN recv = {0, 1, 5}
  /\ recv[5] = LastChunk
  /\ ctr.segs = 3
  /\ hist.stray = <<FarData>>

\* the segment counter is the number of keys of the receive map: each
\* sequence is counted once, inside the announced range or outside it
C39_CountsKeys == ctr.segs = Cardinality(DOMAIN recv)

\* C40 (counter accounting): when no handler is running, SegmentsSent
\* equals the number of DATA frames sent in initial blasts, Retransmissions
\* the number of DATA frames sent in response to NACKs, NacksReceived the
\* number of NACK frames decoded, with or without a session, and BytesSent
\* the sum of the header and payload bytes of all DATA frames written.
C40_CounterAccounting ==
  handlers = <<>> =>
    /\ mtr.SegmentsSent = hist.wrote.blast
    /\ mtr.Retransmissions = hist.wrote.resent
    /\ mtr.NacksReceived = hist.wrote.nacks
    /\ mtr.BytesSent = hist.wrote.bytes

\* the blast of the three-chunk file has ended after Stop closed the socket
\* behind its first frame: three segments counted, one frame written
C40_CountedNotSent ==
  /\ handlers = <<>>
  /\ hist.stopCalls = 1
  /\ mtr.SegmentsSent = 3
  /\ hist.wrote.blast = 1
  /\ mtr.BytesSent = dataHeaderSize + ChunkSize

\* with the socket open all four counters are exact; after Stop the bytes
\* and the NACKs still are, and the two frame counters are the number of
\* writes attempted, never below the number of frames written
C40_ExactWhileOpen ==
  handlers = <<>> =>
    /\ mtr.BytesSent = hist.wrote.bytes
    /\ mtr.NacksReceived = hist.wrote.nacks
    /\ mtr.SegmentsSent >= hist.wrote.blast
    /\ mtr.Retransmissions >= hist.wrote.resent
    /\ hist.stopCalls = 0 =>
         /\ mtr.SegmentsSent = hist.wrote.blast
         /\ mtr.Retransmissions = hist.wrote.resent

====
